---- MODULE Spec2Model ----
(***************************************************************************)
(* Model of the rv-client code generator: the Scope symbol table           *)
(* (codegen/scope.js) and the generation run that drives it                *)
(* (codegen/index.js, codegen/openapi.js, codegen/util.js).                *)
(*                                                                         *)
(* Representation of strings the code splits or joins:                     *)
(*  - a symbol name is the sequence of its '.'-separated segments, so      *)
(*    'client.Client' is <<"client", "Client">>, a + '.' + b is a \o b and *)
(*    name.split('.').pop() is the last segment;                           *)
(*  - a JSON pointer is the sequence of its '/'-separated segments, so     *)
(*    '#/components/schemas/Widget' is <<"#","components","schemas",       *)
(*    "Widget">>;                                                          *)
(*  - the empty sequence stands for undefined / null of those two types.   *)
(***************************************************************************)
EXTENDS Integers, Sequences, FiniteSets, TLC

VARIABLES
  scopes,   \* the Scope objects, the root first: name, path, parent, table
  last,     \* the last call of the Scope API and the scopes before it
  nops,     \* number of Scope API calls made
  input,    \* the loaded OpenAPI document
  pc,       \* position of Codegen.generate
  codegen,  \* the FileCodegen being filled
  byApi,    \* the operations grouped by API
  ix,       \* index of the loop that pc is in
  files,    \* the file artifacts yielded so far
  calls,    \* log of the resolveSchemaType calls
  err       \* the exception that ended the run, or "none"

vars == <<scopes, last, nops, input, pc, codegen, byApi, ix, files, calls, err>>

genvars == <<input, pc, codegen, byApi, ix, files, calls, err>>

(***************************************************************************)
(* Bounds of the scope state machine.                                      *)
(***************************************************************************)
MaxScopes == 3
MaxOps == 4
(* The largest number of segments of the pointers handed to resolve. *)
MaxPointer == 3
(* The largest number of properties of the routes that are compared. *)
MaxRoute == 4

Null == "null"
NoName == <<>>

Last(s) == s[Len(s)]

(***************************************************************************)
(* Scope: constructor and symbol table (a JS object: insertion ordered,    *)
(* assignment to an existing key replaces the value in place).             *)
(***************************************************************************)
NewScope(name, path, parent) ==
  [name |-> name, path |-> path, parent |-> parent, table |-> <<>>]

HasKey(table, k) == \E i \in 1..Len(table) : table[i].local_name = k

TableGet(table, k) ==
  table[CHOOSE i \in 1..Len(table) : table[i].local_name = k]

TableSet(table, entry) ==
  IF HasKey(table, entry.local_name)
  THEN [i \in 1..Len(table) |->
          IF table[i].local_name = entry.local_name THEN entry ELSE table[i]]
  ELSE Append(table, entry)

(* The scope s followed by its ancestors, nearest first. *)
RECURSIVE Chain(_, _)
Chain(sc, s) ==
  IF sc[s].parent = 0 THEN <<s>> ELSE <<s>> \o Chain(sc, sc[s].parent)

(* Every entry of every table. *)
Entries(sc) ==
  UNION { { sc[t].table[i] : i \in 1..Len(sc[t].table) } : t \in 1..Len(sc) }

find_parentFirst(sc, s, predicate) ==
  LET chain == Chain(sc, s)
      hits == SelectSeq(chain, LAMBDA t :
                \E i \in 1..Len(sc[t].table) : sc[t].table[i] \in predicate)
  IN IF hits = <<>> THEN [found |-> FALSE]
     ELSE LET tab == sc[hits[Len(hits)]].table
              i == CHOOSE j \in 1..Len(tab) :
                     /\ tab[j] \in predicate
                     /\ \A k \in 1..(j-1) : tab[k] \notin predicate
          IN [found |-> TRUE, entry |-> tab[i], scope |-> hits[Len(hits)]]

(* Scope.find: the first local entry matching, else the parent's find.     *)
(* The predicate is given by the set of entries it accepts.                *)
find(sc, s, predicate) ==
  LET chain == Chain(sc, s)
      hits == SelectSeq(chain, LAMBDA t :
                \E i \in 1..Len(sc[t].table) : sc[t].table[i] \in predicate)
  IN IF hits = <<>> THEN [found |-> FALSE]
     ELSE LET tab == sc[hits[1]].table
              i == CHOOSE j \in 1..Len(tab) :
                     /\ tab[j] \in predicate
                     /\ \A k \in 1..(j-1) : tab[k] \notin predicate
          IN [found |-> TRUE, entry |-> tab[i], scope |-> hits[1]]

(* Scope.getEntry: local lookup by name, else the parent's. *)
getEntry(sc, s, name) ==
  LET hits == SelectSeq(Chain(sc, s), LAMBDA t : HasKey(sc[t].table, name))
  IN IF hits = <<>> THEN [found |-> FALSE]
     ELSE [found |-> TRUE, entry |-> TableGet(sc[hits[1]].table, name),
           scope |-> hits[1]]

exists_delegating(sc, s, name) ==
  \E t \in 1..Len(sc) :
    /\ \E i \in 1..Len(Chain(sc, s)) : Chain(sc, s)[i] = t
    /\ HasKey(sc[t].table, name)

(* Scope.exists: local only. *)
exists(sc, s, name) == HasKey(sc[s].table, name)

(* The while loop of Scope.import that derives a free local name. *)
RECURSIVE FreeName(_, _, _)
FreeName(table, short_name, nonce) ==
  LET local_name == IF nonce = 1 THEN <<short_name>>
                    ELSE <<short_name \o "_" \o ToString(nonce)>>
  IN IF HasKey(table, local_name)
     THEN FreeName(table, short_name, nonce + 1)
     ELSE local_name

ImportEntry(name, local_name) ==
  [type |-> "import", local_name |-> local_name, public |-> FALSE,
   source |-> name, defined_in |-> Null, spec_path |-> NoName,
   global_name |-> NoName]

(* Mutant of import: the lookup of an existing entry misses earlier        *)
(* imports of the same source.                                             *)
import_noDedup(sc, s, name, local_name) ==
  LET table == sc[s].table
      isExisting(e) == e.type = "definition" /\ e.local_name = name
      existing == SelectSeq(table, isExisting)
  IN IF existing # <<>>
     THEN [sc |-> sc, ret |-> existing[1].local_name, err |-> FALSE]
     ELSE IF local_name # NoName /\ HasKey(table, local_name)
     THEN [sc |-> sc, ret |-> NoName, err |-> TRUE]
     ELSE LET ln == IF local_name = NoName
                    THEN FreeName(table, Last(name), 1)
                    ELSE local_name
          IN [sc |-> [sc EXCEPT ![s].table = TableSet(table, ImportEntry(name, ln))],
              ret |-> ln, err |-> FALSE]

(* Mutant of import: an occupied explicit local name is overwritten        *)
(* instead of being refused.                                               *)
import_overwrite(sc, s, name, local_name) ==
  LET table == sc[s].table
      isExisting(e) == \/ (e.type = "import" /\ e.source = name)
                       \/ (e.type = "definition" /\ e.local_name = name)
      existing == SelectSeq(table, isExisting)
  IN IF existing # <<>>
     THEN [sc |-> sc, ret |-> existing[1].local_name, err |-> FALSE]
     ELSE LET ln == IF local_name = NoName
                    THEN FreeName(table, Last(name), 1)
                    ELSE local_name
          IN [sc |-> [sc EXCEPT ![s].table = TableSet(table, ImportEntry(name, ln))],
              ret |-> ln, err |-> FALSE]

(* Mutant of import: no test for a symbol that is already in the table. *)
import_always(sc, s, name, local_name) ==
  LET table == sc[s].table
      ln == FreeName(table, Last(name), 1)
  IN [sc |-> [sc EXCEPT ![s].table = TableSet(table, ImportEntry(name, ln))],
      ret |-> ln, err |-> FALSE]

(* Scope.import(name, local_name = null); local_name = NoName is null.     *)
(* Result: the scopes after the call, the returned name, whether it threw. *)
import(sc, s, name, local_name) ==
  LET table == sc[s].table
      isExisting(e) == \/ (e.type = "import" /\ e.source = name)
                       \/ (e.type = "definition" /\ e.local_name = name)
      existing == SelectSeq(table, isExisting)
  IN IF existing # <<>>
     THEN [sc |-> sc, ret |-> existing[1].local_name, err |-> FALSE]
     ELSE IF local_name # NoName /\ HasKey(table, local_name)
     THEN [sc |-> sc, ret |-> NoName, err |-> TRUE]
     ELSE LET ln == IF local_name = NoName
                    THEN FreeName(table, Last(name), 1)
                    ELSE local_name
          IN [sc |-> [sc EXCEPT ![s].table = TableSet(table, ImportEntry(name, ln))],
              ret |-> ln, err |-> FALSE]

(* Scope.scope(name, path): a new child of scope s. *)
scope(sc, s, name, path) == Append(sc, NewScope(name, path, s))

(* Mutant of globalName: the root scope's name is not left out. *)
RECURSIVE globalName_withRoot(_, _, _)
globalName_withRoot(sc, s, name) ==
  IF sc[s].parent # 0
  THEN globalName_withRoot(sc, sc[s].parent, <<sc[s].name>>) \o name
  ELSE <<sc[s].name>> \o name

(* Scope.globalName(name). *)
RECURSIVE globalName(_, _, _)
globalName(sc, s, name) ==
  IF sc[s].parent # 0
  THEN globalName(sc, sc[s].parent, <<sc[s].name>>) \o name
  ELSE name

(* Mutant of _define: the copy given to the parent keeps the local name. *)
RECURSIVE _define_noPrefix(_, _, _)
_define_noPrefix(sc, s, entry) ==
  LET sc1 == [sc EXCEPT ![s].table = TableSet(sc[s].table, entry)]
  IN IF sc[s].parent # 0
     THEN _define_noPrefix(sc1, sc[s].parent, entry)
     ELSE sc1

RECURSIVE _define_belowRoot(_, _, _)
_define_belowRoot(sc, s, entry) ==
  IF sc[s].parent = 0 /\ Len(entry.local_name) > 1 THEN sc
  ELSE LET sc1 == [sc EXCEPT ![s].table = TableSet(sc[s].table, entry)]
       IN IF sc[s].parent # 0
          THEN _define_belowRoot(sc1, sc[s].parent,
                 [entry EXCEPT !.local_name = <<sc[s].name>> \o entry.local_name])
          ELSE sc1

(* Mutant of _define: the entry is stored in the table of every scope. *)
_define_everywhere(sc, s, entry) ==
  [t \in 1..Len(sc) |-> [sc[t] EXCEPT !.table = TableSet(sc[t].table, entry)]]

(* Scope._define(entry): store locally, then propagate to the parent under *)
(* the name prefixed with this scope's name.                               *)
RECURSIVE _define(_, _, _)
_define(sc, s, entry) ==
  LET sc1 == [sc EXCEPT ![s].table = TableSet(sc[s].table, entry)]
  IN IF sc[s].parent # 0
     THEN _define(sc1, sc[s].parent,
                  [entry EXCEPT !.local_name = <<sc[s].name>> \o entry.local_name])
     ELSE sc1

(* Scope.define(name, symbol_info); symbol_info = [public, spec_path]. *)
define(sc, s, name, symbol_info) ==
  LET entry == [type |-> "definition", local_name |-> name,
                public |-> symbol_info.public, source |-> NoName,
                defined_in |-> sc[s].path,
                spec_path |-> symbol_info.spec_path,
                global_name |-> IF symbol_info.public
                                THEN globalName(sc, s, name) ELSE NoName]
  IN [sc |-> _define(sc, s, entry), err |-> FALSE]

(***************************************************************************)
(* The OpenAPI document: a JSON value.  An object is the ordered list of   *)
(* its fields, a string that the code reads as a JSON pointer is kept      *)
(* split into its segments, Undefined is JS undefined.                     *)
(***************************************************************************)
Obj(fields) == [k |-> "obj", f |-> fields]
Arr(elems) == [k |-> "arr", e |-> elems]
Str(s) == [k |-> "str", s |-> s]
Ptr(p) == [k |-> "ptr", p |-> p]
Undefined == [k |-> "undef"]
JsonNull == [k |-> "null"]
(* In the place of a value: the TypeError raised instead of returning one. *)
Raised == [k |-> "TypeError"]
F(key, val) == [key |-> key, val |-> val]

(* value[prop] on a plain (not proxied) value. *)
Get(value, prop) ==
  IF value.k = "obj" /\ \E i \in 1..Len(value.f) : value.f[i].key = prop
  THEN value.f[CHOOSE i \in 1..Len(value.f) : value.f[i].key = prop].val
  ELSE Undefined

(* Object.keys(value). *)
Keys(value) ==
  IF value.k = "obj" THEN [i \in 1..Len(value.f) |-> value.f[i].key]
  ELSE <<>>

(* The '/'-separated segments that a property name adds to a path string. *)
Segments(prop) ==
  CASE prop = "application/json" -> <<"application", "json">>
    [] prop = "text/plain" -> <<"text", "plain">>
    [] prop = "application/xml" -> <<"application", "xml">>
    [] prop = "/widgets/{id}" -> <<"", "widgets", "{id}">>
    [] prop = "/widgets" -> <<"", "widgets">>
    [] prop = "/owners/{res}/widgets/{id}" -> <<"", "owners", "{res}", "widgets", "{id}">>
    [] OTHER -> <<prop>>

(* resolve(document, pointer): pointer.substring(2).split('/'), then one index  *)
(* step per part; a part applied to a scalar or undefined gives undefined. *)
(* typeof null is 'object', so a part applied to null is the property      *)
(* access null[part], which raises a TypeError.                            *)
RECURSIVE Walk(_, _)
Walk(ret, parts) ==
  IF parts = <<>> THEN ret
  ELSE IF ret.k = "null" THEN Raised
  ELSE IF ret.k = "arr"
  THEN LET n == CHOOSE i \in 0..Len(ret.e) :
                  \/ (i > 0 /\ ToString(i - 1) = parts[1])
                  \/ (i = 0 /\ \A j \in 1..Len(ret.e) : ToString(j - 1) # parts[1])
       IN Walk(IF n = 0 THEN Undefined ELSE ret.e[n], Tail(parts))
  ELSE IF ret.k = "obj" THEN Walk(Get(ret, parts[1]), Tail(parts))
  ELSE Undefined

(* pointer.substring(2).split('/'): the segments after '#/'; the split of  *)
(* the empty string that '#' leaves is the one empty segment.              *)
Parts(pointer) == IF Len(pointer) > 1 THEN Tail(pointer) ELSE <<"">>

resolve(document, pointer) == Walk(document, Parts(pointer))

IsDefined(v) == v.k # "undef"

(* pointer.split('.') of resolveSchemaPath, on the directives of the       *)
(* documents.                                                              *)
DotParts(pointer) ==
  CASE pointer = "id.x" -> <<"id", "x">>
    [] OTHER -> <<pointer>>

(* OpenApiDocument.dereference. *)
dereference(inner, value) ==
  IF Get(value, "$ref").k = "ptr" THEN resolve(inner, Get(value, "$ref").p)
  ELSE value

(* OpenApiDocument.resolveSchemaPath on the parts of the pointer: err is    *)
(* the exception raised, "none" when schema is returned.                   *)
RECURSIVE resolveSchemaPath(_, _, _)
resolveSchemaPath(inner, schema, parts) ==
  IF parts = <<>> THEN [err |-> "none", schema |-> schema]
  ELSE IF schema.k \in {"undef", "null"} THEN [err |-> "TypeError", schema |-> Undefined]
  ELSE
    LET dereferenced == dereference(inner, schema)
    IN IF dereferenced.k \in {"undef", "null"}
       THEN [err |-> "TypeError", schema |-> Undefined]
       ELSE IF Get(dereferenced, "type") = Str("object")
       THEN IF Get(dereferenced, "properties").k \in {"obj", "arr"}
            THEN resolveSchemaPath(inner,
                   Get(Get(dereferenced, "properties"), parts[1]), Tail(parts))
            ELSE [err |-> "none", schema |-> Undefined]
       ELSE IF Get(dereferenced, "type") = Str("array")
       THEN IF Get(dereferenced, "items").k \in {"obj", "arr"}
            THEN resolveSchemaPath(inner, Get(dereferenced, "items"), Tail(parts))
            ELSE [err |-> "none", schema |-> Undefined]
       ELSE [err |-> "Error", schema |-> Undefined]

(* obj[key] = val on a field list: in place when the key exists, appended *)
(* otherwise.                                                             *)
Put(fields, key, val) ==
  IF \E i \in 1..Len(fields) : fields[i].key = key
  THEN [i \in 1..Len(fields) |->
          IF fields[i].key = key THEN F(key, val) ELSE fields[i]]
  ELSE Append(fields, F(key, val))

(* The spread of the own enumerable fields of value onto fields. *)
RECURSIVE Spread(_, _)
Spread(fields, more) ==
  IF more = <<>> THEN fields
  ELSE Spread(Put(fields, more[1].key, more[1].val), Tail(more))

(* The segment that deref appends for a property: prop.replace(/\//g, '\\/'). *)
Escaped(prop) ==
  CASE prop = "application/json" -> "application\\/json"
    [] prop = "text/plain" -> "text\\/plain"
    [] prop = "/widgets/{id}" -> "\\/widgets\\/{id}"
    [] prop = "/widgets" -> "\\/widgets"
    [] prop = "/owners/{res}/widgets/{id}" -> "\\/owners\\/{res}\\/widgets\\/{id}"
    [] OTHER -> prop

(* ret.$path = path: an ordinary property of an object or an array, and   *)
(* nothing on a primitive.                                                *)
Stamp(ret, path) ==
  IF ret.k = "obj" THEN Obj(Put(ret.f, "$path", Ptr(path)))
  ELSE IF ret.k = "arr" THEN [k |-> "arr", e |-> ret.e, path |-> path]
  ELSE ret

(* deref(doc, path, root), with the references that are being expanded in *)
(* chain: expanding a reference inside its own expansion repeats that     *)
(* call for ever, which ends as the RangeError of the JS stack.           *)
RECURSIVE deref(_, _, _, _)
RECURSIVE DerefItems(_, _, _, _, _, _)
RECURSIVE DerefProps(_, _, _, _, _, _)

DerefItems(doc, path, root, chain, i, acc) ==
  IF i > Len(doc.e) THEN [err |-> "none", value |-> Arr(acc)]
  ELSE LET next(r) ==
             IF r.err # "none" THEN r
             ELSE DerefItems(doc, path, root, chain, i + 1, Append(acc, r.value))
       IN next(deref(doc.e[i], path \o <<ToString(i - 1)>>, root, chain))

DerefProps(doc, path, _root, chain, i, acc) ==
  IF i > Len(doc.f) THEN [err |-> "none", value |-> Obj(acc)]
  ELSE LET next(r) ==
             IF r.err # "none" THEN r
             ELSE DerefProps(doc, path, _root, chain, i + 1,
                             Put(acc, doc.f[i].key, r.value))
       IN next(deref(doc.f[i].val, path \o <<Escaped(doc.f[i].key)>>, _root, chain))

deref(doc, path, root, chain) ==
  LET _root == IF IsDefined(root) THEN root ELSE doc
      ref == Get(doc, "$ref")
      stamped(r, path1) ==
        IF r.err # "none" THEN r ELSE [r EXCEPT !.value = Stamp(r.value, path1)]
      referenced(r) ==
        IF r.err # "none" THEN r
        ELSE [r EXCEPT !.value =
                Obj(Spread(<<F("$ref", ref)>>,
                           IF r.value.k = "obj" THEN r.value.f ELSE <<>>))]
  IN IF doc.k = "arr"
     THEN stamped(DerefItems(doc, path, root, chain, 1, <<>>), path)
     ELSE IF doc.k = "obj" /\ IsDefined(ref)
     THEN IF \E i \in 1..Len(chain) : chain[i] = ref.p
          THEN [err |-> "RangeError", value |-> Undefined]
          ELSE stamped(referenced(deref(resolve(_root, ref.p), ref.p, _root,
                                        Append(chain, ref.p))), ref.p)
     ELSE IF doc.k = "obj"
     THEN stamped(DerefProps(doc, path, _root, chain, 1, <<>>), path)
     ELSE [err |-> "none", value |-> doc]

createOpenApiObject_ownPath(value, path, root) ==
  LET ref == Get(value, "$ref")
      make(value1) ==
        IF value1.k \in {"obj", "arr"}
        THEN [k |-> "proxy", target |-> value1, path |-> path]
        ELSE value1
  IN IF value.k = "obj" /\ ref.k = "ptr"
     THEN make(resolve(root, ref.p))
     ELSE make(value)

(* createOpenApiObject(value, path, root): a value carrying a reference is *)
(* replaced by the referenced value and takes the reference as its path;   *)
(* a scalar is returned as it is; an object or array becomes a proxy that  *)
(* carries $path.                                                          *)
createOpenApiObject(value, path, root) ==
  LET ref == Get(value, "$ref")
      make(value1, path1) ==
        IF value1.k \in {"obj", "arr"}
        THEN [k |-> "proxy", target |-> value1, path |-> path1]
        ELSE value1
  IN IF value.k = "obj" /\ ref.k = "ptr"
     THEN make(resolve(root, ref.p), ref.p)
     ELSE make(value, path)

(* The get trap of the proxy: obj[prop]. *)
ProxyGet(obj, prop, root) ==
  IF obj.k # "proxy" THEN Undefined
  ELSE IF prop = "$path" THEN Ptr(obj.path)
  ELSE createOpenApiObject(
         IF obj.target.k = "arr" THEN Walk(obj.target, <<prop>>)
         ELSE Get(obj.target, prop),
         obj.path \o (IF obj.target.k = "arr" THEN <<prop>> ELSE Segments(prop)),
         root)

(* Object.keys of a proxy: the own enumerable keys of its target ($path is *)
(* defined non-enumerable).                                                *)
ProxyKeys(obj) ==
  IF obj.k # "proxy" THEN <<>>
  ELSE IF obj.target.k = "arr"
  THEN [i \in 1..Len(obj.target.e) |-> ToString(i - 1)]
  ELSE Keys(obj.target)

(* schema.$path as the code compares it with entry.spec_path. *)
PathOf(obj) == IF obj.k = "proxy" THEN obj.path ELSE NoName

(***************************************************************************)
(* util.js and http.js.  Strings are atoms here, so the functions that     *)
(* look inside a string are tabulated on the strings the documents use.    *)
(***************************************************************************)
capitalize(s) ==
  CASE s = "getWidget" -> "GetWidget"
    [] s = "listWidgets" -> "ListWidgets"
    [] s = "putWidget" -> "PutWidget"
    [] s = "widget" -> "Widget"
    [] s = "get" -> "Get"
    [] s = "put" -> "Put"
    [] s = "widgets" -> "Widgets"
    [] s = "id" -> "Id"
    [] s = "owners" -> "Owners"
    [] s = "res" -> "Res"
    [] OTHER -> s

removeDuplicates_none(array) == array

RECURSIVE removeDuplicates(_)
removeDuplicates(array) ==
  IF array = <<>> THEN <<>>
  ELSE LET init == removeDuplicates(SubSeq(array, 1, Len(array) - 1))
           item == array[Len(array)]
       IN IF \E i \in 1..Len(init) : init[i] = item THEN init
          ELSE Append(init, item)

(* escape(string, toEscape): a backslash before every backslash and every  *)
(* character of toEscape.                                                  *)
escape(string, toEscape) ==
  CASE string = "a\"b" /\ toEscape = "\"" -> "a\\\"b"
    [] string = "a\\b" -> "a\\\\b"
    [] OTHER -> string

statusCodeNames(statusCode) ==
  CASE statusCode = "200" -> "Success"
    [] statusCode = "201" -> "Created"
    [] statusCode = "204" -> "Empty"
    [] statusCode = "404" -> "NotFound"
    [] statusCode = "403" -> "BadRequest"
    [] statusCode = "401" -> "Unauthorized"
    [] OTHER -> "undefined"

(* array.join(sep) of strings. *)
RECURSIVE Join(_, _)
Join(array, sep) ==
  IF array = <<>> THEN ""
  ELSE IF Len(array) = 1 THEN array[1]
  ELSE array[1] \o sep \o Join(Tail(array), sep)

(* A symbol name as the string the code handles. *)
NameStr(name) == Join(name, ".")

StrIs(v, s) == v.k = "str" /\ v.s = s

(***************************************************************************)
(* FileCodegen.  Every method takes and returns the state st it works on:  *)
(*   sc        the scope tree                                              *)
(*   typedefs  this.typedefs, operations  this.operations                  *)
(*   ret       the method's return value                                   *)
(*   err       "none", or the exception that ended the run                 *)
(*   calls     log of the resolveSchemaType calls made on schema objects   *)
(* and the context ctx = [s |-> this.scope, root |-> the document].        *)
(* stack holds the resolveSchemaType frames that are active: a call that   *)
(* finds its own schema path, with the same scope tree, already active     *)
(* repeats that frame for ever; it ends as the RangeError of the JS stack. *)
(***************************************************************************)
Throw(st, e) == [st EXCEPT !.err = e]
Return(st, v) == [st EXCEPT !.ret = v]

RECURSIVE resolveSchemaType(_, _, _, _, _)
RECURSIVE generateTypedef(_, _, _, _, _)
RECURSIVE ResolveEach(_, _, _, _, _, _, _)
RECURSIVE ResolveProperties(_, _, _, _, _, _)

(* schema.enum.map: each value escaped and double-quoted (resolveSchemaType). *)
EnumLiterals(enum) ==
  [i \in 1..Len(enum.target.e) |->
     "\"" \o escape(enum.target.e[i].s, "\"") \o "\""]

(* def.enum.map: each value single-quoted (generateTypedef). *)
EnumVariants(enum) ==
  [i \in 1..Len(enum.target.e) |-> "'" \o enum.target.e[i].s \o "'"]

(* array.map((item, i) => this.resolveSchemaType(item, name(i))), from     *)
(* index i on: st.ret is the list of the types collected.                  *)
ResolveEach(st, ctx, array, i, prefix, acc, stack) ==
  IF st.err # "none" THEN st
  ELSE IF i > Len(ProxyKeys(array)) THEN Return(st, acc)
  ELSE LET next(r) ==
             ResolveEach(r, ctx, array, i + 1, prefix, Append(acc, r.ret), stack)
       IN next(resolveSchemaType(st, ctx, ProxyGet(array, ToString(i - 1), ctx.root),
                 IF prefix = "" THEN "" ELSE prefix \o ToString(i - 1), stack))

(* The loop over Object.keys(def.properties) of generateTypedef. *)
ResolveProperties(st, ctx, properties, i, acc, stack) ==
  IF st.err # "none" THEN st
  ELSE IF i > Len(ProxyKeys(properties)) THEN Return(st, acc)
  ELSE LET name == ProxyKeys(properties)[i]
           next(prop, r) ==
             IF r.err = "none" /\ ~IsDefined(prop)
             THEN Throw(r, "TypeError")
             ELSE ResolveProperties(r, ctx, properties, i + 1,
                    Append(acc, [name |-> name, type |-> r.ret]), stack)
           resolved(prop) == next(prop, resolveSchemaType(st, ctx, prop, "", stack))
       IN resolved(ProxyGet(properties, name, ctx.root))

NoTypedef ==
  [type |-> "", name |-> "", path |-> NoName, properties |-> <<>>,
   item |-> "", variants |-> <<>>, members |-> <<>>]

Logged(st, ctx, schema, newName, r, viaSymbol) ==
  [r EXCEPT !.calls = Append(r.calls,
     [scope |-> ctx.s, path |-> PathOf(schema), named |-> newName # "",
      ret |-> r.ret, symbol |-> viaSymbol, err |-> r.err # "none",
      at |-> Len(st.calls)])]

resolveSchemaType(st, ctx, schema, newName, stack) ==
  IF st.err # "none" THEN st
  ELSE IF ~IsDefined(schema) THEN Return(st, "undefined")
  ELSE
    LET path == PathOf(schema)
        frame == [path |-> path, named |-> newName # "", sc |-> st.sc]
        stack1 == Append(stack, frame)
        imported(r) == [st EXCEPT !.sc = r.sc, !.ret = NameStr(r.ret)]
        intersection(r) ==
          IF r.err # "none" THEN r ELSE Return(r, Join(r.ret, " & "))
        array(r) ==
          IF r.err # "none" THEN r ELSE Return(r, "Array<" \o r.ret \o ">")
        typedef(r) == IF r.err # "none" THEN r ELSE Return(r, newName)
        structural(type, allOf, enum) ==
          IF IsDefined(allOf)
          THEN intersection(ResolveEach(st, ctx, allOf, 1, "", <<>>, stack1))
          ELSE IF StrIs(type, "array")
          THEN array(resolveSchemaType(st, ctx, ProxyGet(schema, "items", ctx.root),
                       IF newName # "" THEN newName \o "Item" ELSE "", stack1))
          ELSE IF StrIs(type, "object")
          THEN IF newName # ""
               THEN typedef(generateTypedef(st, ctx, newName, schema, stack1))
               ELSE Return(st, "object")
          ELSE IF IsDefined(enum) /\ StrIs(type, "string")
          THEN Return(st, Join(EnumLiterals(enum), " | "))
          ELSE IF IsDefined(enum)
          THEN Throw(st, "ReferenceError")
          ELSE IF ~IsDefined(type) THEN Return(st, "any")
          ELSE IF StrIs(type, "integer") THEN Return(st, "number")
          ELSE Return(st, type.s)
        dispatch(symbol) ==
          IF symbol.found
          THEN Logged(st, ctx, schema, newName,
                      imported(import(st.sc, ctx.s, symbol.entry.local_name, NoName)),
                      TRUE)
          ELSE IF \E i \in 1..Len(stack) : stack[i] = frame
          THEN Throw(st, "RangeError")
          ELSE Logged(st, ctx, schema, newName,
                      structural(ProxyGet(schema, "type", ctx.root),
                                 ProxyGet(schema, "allOf", ctx.root),
                                 ProxyGet(schema, "enum", ctx.root)),
                      FALSE)
    IN dispatch(find(st.sc, ctx.s,
                     { e \in Entries(st.sc) :
                         e.type = "definition" /\ e.spec_path = path }))

generateTypedef_everyKind(st, ctx, name, def, stack) ==
  IF st.err # "none" THEN st
  ELSE [st EXCEPT !.sc = define(st.sc, ctx.s, <<name>>,
                           [public |-> FALSE, spec_path |-> PathOf(def)]).sc,
                  !.typedefs = Append(st.typedefs,
                    [NoTypedef EXCEPT !.name = name, !.path = PathOf(def),
                                      !.type = "alias"]),
                  !.ret = name]

generateTypedef(st, ctx, name, def, stack) ==
  IF st.err # "none" THEN st
  ELSE
    LET base == [NoTypedef EXCEPT !.name = name, !.path = PathOf(def)]
        push(r, typedef) ==
          IF r.err # "none" THEN r
          ELSE [r EXCEPT !.typedefs = Append(r.typedefs, typedef), !.ret = name]
        object(r) == push(r, [base EXCEPT !.type = "object", !.properties = r.ret])
        array(r) == push(r, [base EXCEPT !.type = "array", !.item = r.ret])
        union(r) == push(r, [base EXCEPT !.type = "union", !.members = r.ret])
        body(st1, type, properties, enum, allOf) ==
          IF StrIs(type, "object")
          THEN object(IF IsDefined(properties)
                      THEN ResolveProperties(st1, ctx, properties, 1, <<>>, stack)
                      ELSE Return(st1, <<>>))
          ELSE IF StrIs(type, "array")
          THEN array(resolveSchemaType(st1, ctx, ProxyGet(def, "items", ctx.root),
                                       "", stack))
          ELSE IF StrIs(type, "string") /\ IsDefined(enum)
          THEN push(st1, [base EXCEPT !.type = "enum",
                                      !.variants = EnumVariants(enum)])
          ELSE IF IsDefined(allOf)
          THEN union(ResolveEach(st1, ctx, allOf, 1, name \o "UnionMember", <<>>, stack))
          ELSE Return(st1, name)
    IN body([st EXCEPT !.sc = define(st.sc, ctx.s, <<name>>,
                                [public |-> FALSE, spec_path |-> PathOf(def)]).sc],
            ProxyGet(def, "type", ctx.root),
            ProxyGet(def, "properties", ctx.root),
            ProxyGet(def, "enum", ctx.root),
            ProxyGet(def, "allOf", ctx.root))

(* The path templates of the documents: the pieces that the regular        *)
(* expression /{([^}]+)}/g separates, and the words that                   *)
(* path.replace(/[{}]/g, '').split('/') yields.                            *)
Lit(text) == [param |-> FALSE, text |-> text]
Param(name) == [param |-> TRUE, text |-> name]

PathPieces(path) ==
  CASE path = "/widgets/{id}" -> <<Lit("/widgets/"), Param("id")>>
    [] path = "/widgets" -> <<Lit("/widgets")>>
    [] path = "/owners/{res}/widgets/{id}" ->
         <<Lit("/owners/"), Param("res"), Lit("/widgets/"), Param("id")>>
    [] OTHER -> <<Lit(path)>>

PathWords(path) ==
  CASE path = "/widgets/{id}" -> <<"", "widgets", "id">>
    [] path = "/widgets" -> <<"", "widgets">>
    [] path = "/owners/{res}/widgets/{id}" -> <<"", "owners", "res", "widgets", "id">>
    [] OTHER -> <<path>>

(* A getUniqueSymbolName that returns the base as it is. *)
getUniqueSymbolName_base(scopeVariables, base, nonce) == base

(* getUniqueSymbolName(base) of generateOperation: the name chosen, given  *)
(* the names in scopeVariables.                                            *)
RECURSIVE getUniqueSymbolName(_, _, _)
getUniqueSymbolName(scopeVariables, base, nonce) ==
  LET name == IF nonce = 1 THEN base ELSE base \o ToString(nonce)
  IN IF \E i \in 1..Len(scopeVariables) : scopeVariables[i] = name
     THEN getUniqueSymbolName(scopeVariables, base, nonce + 1)
     ELSE name

StrOr(v, default) == IF v.k = "str" THEN v.s ELSE default

(* The name of generateOperation: operationId, else the override, else the *)
(* capitalized path words followed by the capitalized method.              *)
OperationName(path, method, operation, root) ==
  LET operationId == ProxyGet(operation, "operationId", root)
      override == ProxyGet(operation, "x-codegen-method-name", root)
      words == PathWords(path)
  IN IF operationId.k = "str" /\ operationId.s # "" THEN operationId.s
     ELSE IF override.k = "str" /\ override.s # "" THEN override.s
     ELSE Join([i \in 1..Len(words) |-> capitalize(words[i])], "")
            \o capitalize(method)

(* The map over operation.parameters of generateOperation, from index i.   *)
RECURSIVE ResolveParameters(_, _, _, _, _, _)
ResolveParameters(st, ctx, parameters, i, acc, scopeVariables) ==
  IF st.err # "none" THEN st
  ELSE IF i > Len(ProxyKeys(parameters))
  THEN Return(st, [parameters |-> acc, scopeVariables |-> scopeVariables])
  ELSE LET next(name, argument_name, r) ==
             ResolveParameters(r, ctx, parameters, i + 1,
               Append(acc, [argument_name |-> argument_name,
                            path_name |-> name, type |-> r.ret]),
               Append(scopeVariables, argument_name))
           named(param, name) ==
             next(name, getUniqueSymbolName(scopeVariables, name, 1),
                  resolveSchemaType(st, ctx, ProxyGet(param, "schema", ctx.root),
                                    "", <<>>))
           mapped(param) ==
             IF ~IsDefined(param) THEN Throw(st, "TypeError")
             ELSE named(param, StrOr(ProxyGet(param, "name", ctx.root), "undefined"))
       IN mapped(ProxyGet(parameters, ToString(i - 1), ctx.root))

(* FileCodegen.getOperationResponses: the loops over the status codes and  *)
(* the content types, flattened to the list of (statusCode, contentType).  *)
ResponsePairs(operation, root) ==
  LET responses == ProxyGet(operation, "responses", root)
      codes == ProxyKeys(responses)
      pairsOf(statusCode) ==
        LET content == ProxyGet(ProxyGet(responses, statusCode, root), "content", root)
        IN [j \in 1..Len(ProxyKeys(content)) |->
              [statusCode |-> statusCode, contentType |-> ProxyKeys(content)[j]]]
      flat[i \in 0..Len(codes)] ==
        IF i = 0 THEN <<>> ELSE flat[i - 1] \o pairsOf(codes[i])
  IN flat[Len(codes)]

Unwraps_never(schema, properties, root) == FALSE

(* The single-property wrapper test of getOperationResponses:             *)
(* schema.type === 'object' && schema.properties && props.length === 1.   *)
Unwraps(schema, properties, root) ==
  /\ StrIs(ProxyGet(schema, "type", root), "object")
  /\ IsDefined(properties)
  /\ Len(ProxyKeys(properties)) = 1

RECURSIVE ResolveResponses(_, _, _, _, _, _, _)
ResolveResponses(st, ctx, operation, name, pairs, i, acc) ==
  IF st.err # "none" THEN st
  ELSE IF i > Len(pairs) THEN Return(st, acc)
  ELSE
    LET statusCode == pairs[i].statusCode
        contentType == pairs[i].contentType
        push(r, translation) ==
          ResolveResponses(r, ctx, operation, name, pairs, i + 1,
            Append(acc, [statusCode |-> statusCode, contentType |-> contentType,
                         translation |-> translation, returnType |-> r.ret]))
        resolved(schema, translation) ==
          push(resolveSchemaType(st, ctx, schema,
                 capitalize(name) \o statusCodeNames(statusCode) \o "Response", <<>>),
               translation)
        unwrapped(schema, properties, unwrap) ==
          resolved(IF unwrap
                   THEN ProxyGet(properties, ProxyKeys(properties)[1], ctx.root)
                   ELSE schema,
                   IF unwrap THEN ProxyKeys(properties)[1] ELSE "")
        typed(schema, properties) ==
          IF ~IsDefined(schema) THEN Throw(st, "TypeError")
          ELSE unwrapped(schema, properties, Unwraps(schema, properties, ctx.root))
        withSchema(schema) == typed(schema, ProxyGet(schema, "properties", ctx.root))
        withDef(responseDef) ==
          IF ~IsDefined(responseDef) THEN Throw(st, "TypeError")
          ELSE IF IsDefined(ProxyGet(responseDef, "x-codegen-translate-response", ctx.root))
          (* this.spec is the proxied document: it has no resolveSchemaPath *)
          THEN Throw(st, "TypeError")
          ELSE withSchema(ProxyGet(responseDef, "schema", ctx.root))
    IN withDef(ProxyGet(ProxyGet(ProxyGet(ProxyGet(operation, "responses", ctx.root),
                 statusCode, ctx.root), "content", ctx.root), contentType, ctx.root))

getOperationResponses(st, ctx, operation, name) ==
  LET entries(responses) ==
        IF \/ ~IsDefined(responses)
           \/ \E i \in 1..Len(ProxyKeys(responses)) :
                ~IsDefined(ProxyGet(responses, ProxyKeys(responses)[i], ctx.root))
        THEN Throw(st, "TypeError")
        ELSE ResolveResponses(st, ctx, operation, name,
                              ResponsePairs(operation, ctx.root), 1, <<>>)
  IN entries(ProxyGet(operation, "responses", ctx.root))

generatePathExpression_lenient(path, parameters) ==
  [found |-> TRUE, expr |-> path]

(* FileCodegen.generatePathExpression: found is FALSE when a placeholder   *)
(* names no parameter (the Error thrown); expr is the text between the     *)
(* delimiters of the template literal.                                     *)
generatePathExpression(path, parameters) ==
  LET pieces == PathPieces(path)
      declared(p1) == \E i \in 1..Len(parameters) : parameters[i].path_name = p1
      argOf(p1) ==
        parameters[CHOOSE i \in 1..Len(parameters) :
                     /\ parameters[i].path_name = p1
                     /\ \A j \in 1..(i-1) : parameters[j].path_name # p1].argument_name
      inner == [i \in 1..Len(pieces) |->
                 IF ~pieces[i].param THEN pieces[i].text
                 ELSE IF declared(pieces[i].text)
                 THEN "${" \o argOf(pieces[i].text) \o "}"
                 ELSE ""]
  IN [found |-> \A i \in 1..Len(pieces) : pieces[i].param => declared(pieces[i].text),
      expr |-> Join(inner, "")]

(* FileCodegen.generateOperation(path, method, operation).  The jsdoc text *)
(* is left out of the descriptor; responses is the local list that the     *)
(* return type is computed from, kept in the descriptor for the properties.*)
generateOperation(st, ctx, path, method, operation) ==
  LET truthy(array) == SelectSeq(array, LAMBDA t : t # "")
      returnTypes(types) == IF types = <<>> THEN <<"void">> ELSE types
      push(name, rr, parameters, bodyParameter, pathExpr) ==
        IF rr.err # "none" THEN rr
        ELSE IF ~pathExpr.found THEN Throw(rr, "Error")
        ELSE [rr EXCEPT !.operations = Append(rr.operations,
                [name |-> name, path |-> pathExpr.expr, method |-> method,
                 parameters |-> parameters,
                 returnType |->
                   Join(removeDuplicates(returnTypes(truthy(
                     [i \in 1..Len(rr.ret) |-> rr.ret[i].returnType]))), " | "),
                 responseTranslations |->
                   SelectSeq(rr.ret, LAMBDA r : r.translation # ""),
                 bodyParameter |-> bodyParameter,
                 responses |-> rr.ret])]
      responses(name, rb, parameters, bodyParameter) ==
        IF rb.err # "none" THEN rb
        ELSE push(name, getOperationResponses(rb, ctx, operation, name),
                  parameters, bodyParameter,
                  generatePathExpression(path, parameters))
      withBody(name, rp, requestType, hasBody, bodyParameter) ==
        responses(name, requestType,
                  IF hasBody /\ requestType.err = "none"
                  THEN Append(rp.ret.parameters,
                         [argument_name |-> bodyParameter, path_name |-> "",
                          type |-> requestType.ret])
                  ELSE rp.ret.parameters,
                  bodyParameter)
      body(name, rp, requestSchema) ==
        IF rp.err # "none" THEN rp
        ELSE withBody(name, rp,
               IF IsDefined(requestSchema)
               THEN resolveSchemaType(rp, ctx, requestSchema,
                                      capitalize(name) \o "Request", <<>>)
               ELSE rp,
               IsDefined(requestSchema),
               IF IsDefined(requestSchema)
               THEN getUniqueSymbolName(rp.ret.scopeVariables, "payload", 1)
               ELSE "")
  IN body(OperationName(path, method, operation, ctx.root),
          ResolveParameters(st, ctx, ProxyGet(operation, "parameters", ctx.root),
                            1, <<>>, <<"res">>),
          ProxyGet(ProxyGet(ProxyGet(ProxyGet(operation, "requestBody", ctx.root),
            "content", ctx.root), "application/json", ctx.root), "schema", ctx.root))

(***************************************************************************)
(* Codegen.                                                                *)
(***************************************************************************)
(* Codegen.resolveApi: the x-codegen-class of the first tag of the         *)
(* operation whose definition has one; .find(() => true) on an empty list  *)
(* gives undefined, which className === null does not catch.               *)
resolveApi(operation, spec, root) ==
  LET tags == ProxyGet(operation, "tags", root)
      tagDefs == ProxyGet(spec, "tags", root)
      defOf(tag) ==
        LET hits == SelectSeq(ProxyKeys(tagDefs), LAMBDA i :
                      ProxyGet(ProxyGet(tagDefs, i, root), "name", root) = tag)
        IN IF hits = <<>> THEN Undefined ELSE ProxyGet(tagDefs, hits[1], root)
      classes == [i \in 1..Len(ProxyKeys(tags)) |->
                    ProxyGet(defOf(ProxyGet(tags, ToString(i - 1), root)),
                             "x-codegen-class", root)]
      named == SelectSeq(classes, LAMBDA c : c.k = "str" /\ c.s # "")
  IN IF named = <<>> THEN Undefined ELSE named[1]

(* Codegen.getOperations: every (path, method) pair, grouped by the name   *)
(* of its API with _.groupBy, whose key for undefined is 'undefined'.      *)
getOperations(spec, root) ==
  LET paths == ProxyGet(spec, "paths", root)
      opsOf(path) ==
        LET value == ProxyGet(paths, path, root)
        IN [j \in 1..Len(ProxyKeys(value)) |->
              [path |-> path, method |-> ProxyKeys(value)[j],
               api |-> StrOr(resolveApi(ProxyGet(value, ProxyKeys(value)[j], root),
                                        spec, root), "undefined")]]
      flat[i \in 0..Len(ProxyKeys(paths))] ==
        IF i = 0 THEN <<>> ELSE flat[i - 1] \o opsOf(ProxyKeys(paths)[i])
      operations == flat[Len(ProxyKeys(paths))]
      names == removeDuplicates([i \in 1..Len(operations) |-> operations[i].api])
  IN [i \in 1..Len(names) |->
        [name |-> names[i],
         operations |-> SelectSeq(operations, LAMBDA o : o.api = names[i])]]

FileCodegen(filename, s, name) ==
  [filename |-> filename, scope |-> s, name |-> name,
   typedefs |-> <<>>, operations |-> <<>>]

(* FileCodegen.render: the data handed to the template.  An import whose   *)
(* source getEntry does not find, or finds without a file, is a TypeError. *)
(* source holds the path of the defining file: the arithmetic that turns   *)
(* it into a relative module path (path.relative, './', .ts removed) is    *)
(* not part of the model.                                                  *)
render(sc, fc) ==
  LET entries == SelectSeq(sc[fc.scope].table, LAMBDA e : e.type = "import")
      source_symbol(e) == getEntry(sc, fc.scope, e.source)
      ok == \A i \in 1..Len(entries) :
              /\ source_symbol(entries[i]).found
              /\ source_symbol(entries[i]).entry.defined_in # Null
  IN [err |-> IF ok THEN "none" ELSE "TypeError",
      file |-> [path |-> fc.filename,
                imports |-> IF ok
                            THEN [i \in 1..Len(entries) |->
                                   [short_name |-> Last(source_symbol(entries[i]).entry.local_name),
                                    local_name |-> entries[i].local_name,
                                    source |-> source_symbol(entries[i]).entry.defined_in]]
                            ELSE <<>>,
                typedefs |-> fc.typedefs,
                apis |-> IF fc.name # Null
                         THEN <<[name |-> fc.name, operations |-> fc.operations]>>
                         ELSE <<>>,
                exports |-> <<>>]]

(* Codegen.generateIndex: one export per public entry of the root table,   *)
(* source being the path of the defining file as in render.                *)
generateIndex(sc, filename) ==
  LET public == SelectSeq(sc[1].table, LAMBDA e : e.public)
  IN [err |-> IF \A i \in 1..Len(public) : public[i].defined_in # Null
              THEN "none" ELSE "TypeError",
      file |-> [path |-> filename, imports |-> <<>>, typedefs |-> <<>>,
                apis |-> <<>>,
                exports |-> [i \in 1..Len(public) |->
                              [source |-> public[i].defined_in,
                               short_name |-> Last(public[i].local_name)]]]]

(***************************************************************************)
(* The documents of the model.                                             *)
(***************************************************************************)
Type(t) == F("type", Str(t))
Integer == Obj(<<Type("integer")>>)
RefTo(pointer) == Obj(<<F("$ref", Ptr(pointer))>>)
SchemaRef(name) == RefTo(<<"#", "components", "schemas", name>>)
Object(properties) == Obj(<<Type("object"), F("properties", Obj(properties))>>)

Enum(type, values) ==
  Obj(<<Type(type), F("enum", Arr([i \in 1..Len(values) |-> Str(values[i])]))>>)

SchemaBody(name) ==
  CASE name = "Widget" -> Object(<<F("id", Integer)>>)
    [] name = "Pair" -> Object(<<F("w", SchemaRef("Widget")), F("n", Integer)>>)
    [] name = "Both" -> Object(<<F("w", SchemaRef("Widget")), F("p", SchemaRef("Pair"))>>)
    [] name = "A" -> Object(<<F("b", SchemaRef("B")), F("x", Integer)>>)
    [] name = "B" -> Object(<<F("a", SchemaRef("A")), F("y", Integer)>>)
    [] name = "Node" -> Object(<<F("next", SchemaRef("Node")), F("v", Integer)>>)
    [] name = "List" -> Obj(<<Type("array"), F("items", SchemaRef("List"))>>)
    [] name = "Holder" -> Object(<<F("l", SchemaRef("List")), F("n", Integer)>>)
    [] name = "definitions" -> Object(<<F("a", Integer), F("b", Integer)>>)
    [] name = "Color" -> Enum("string", <<"red", "a\"b">>)
    [] name = "Level" -> Enum("integer", <<"1", "2">>)
    [] name = "Tags" -> Obj(<<Type("array"), F("items", Obj(<<Type("string")>>))>>)
    [] name = "Merged" ->
         Obj(<<F("allOf", Arr(<<SchemaRef("Widget"),
                                Object(<<F("extra", Integer), F("more", Integer)>>)>>))>>)
    [] name = "Labelled" ->
         Object(<<F("name", SchemaRef("Name")),
                  F("color", Enum("string", <<"red", "a\"b">>)),
                  F("level", SchemaRef("Level"))>>)
    [] name = "Graded" ->
         Object(<<F("level", Enum("integer", <<"1", "2">>)), F("n", Integer)>>)
    [] OTHER -> Obj(<<Type("string")>>)

SchemaLists ==
  { <<"Widget">>, <<"Widget", "Pair">>, <<"Pair", "Widget", "Both">>,
    <<"A", "B">>, <<"Node">>, <<"List", "Holder">>, <<"Holder", "List">>,
    <<"Widget", "definitions">>,
    <<"Widget", "Name", "Color", "Level", "Tags", "Merged", "Labelled">>,
    <<"Graded">> }

Json(schema) == Obj(<<F("content", Obj(<<F("application/json", Obj(<<F("schema", schema)>>))>>))>>)

NotFound == Json(Object(<<F("code", Integer), F("message", Obj(<<Type("string")>>))>>))

IdParameter == Obj(<<F("name", Str("id")), F("in", Str("path")), F("schema", Integer)>>)

ResParameter == Obj(<<F("name", Str("res")), F("in", Str("path")), F("schema", Integer)>>)

(* get /widgets/{id}: parameter id and the responses given, listed by     *)
(* ascending status code, which is the order Object.entries gives the      *)
(* integer-like keys of a JS object.                                       *)
GetWidget(tags, responses) ==
  Obj(tags \o <<F("parameters", Arr(<<IdParameter>>)), F("responses", Obj(responses))>>)

Ok(schema) == F("200", Json(schema))
Created(schema) == F("201", Json(schema))
Empty(schema) == F("204", Json(schema))
NoContent == F("204", Obj(<<F("description", Str("deleted"))>>))
Text == F("200", Obj(<<F("content", Obj(<<F("text/plain",
            Obj(<<F("schema", Obj(<<Type("string")>>))>>))>>))>>))
Missing == F("404", RefTo(<<"#", "components", "responses", "NotFound">>))
Tags(t) == <<F("tags", Arr(<<Str(t)>>))>>
TagList(ts) == <<F("tags", Arr([i \in 1..Len(ts) |-> Str(ts[i])]))>>

(* put /widgets: an inline request body and an inline response. *)
PutWidgets(tags) ==
  Obj(tags \o
      <<F("operationId", Str("putWidget")),
        F("requestBody", Json(Object(<<F("name", Obj(<<Type("string")>>)), F("size", Integer)>>))),
        F("responses", Obj(<<F("201", Json(Object(<<F("w", SchemaRef("Widget")), F("n", Integer)>>))),
                             Missing>>))>>)

(* A JSON response whose content entry carries the translation directive. *)
Translated(translation, schema) ==
  F("200", Obj(<<F("content", Obj(<<F("application/json",
       Obj(<<F("x-codegen-translate-response", Str(translation)),
             F("schema", schema)>>))>>))>>))

(* A response with an inline object schema of two properties. *)
Failure(statusCode, first, second) ==
  F(statusCode, Json(Object(<<F(first, Integer), F(second, Obj(<<Type("string")>>))>>)))

(* A response 200 with a JSON and an XML content entry, each with an       *)
(* inline object schema of two properties.                                 *)
TwoContents ==
  F("200", Obj(<<F("content", Obj(<<
     F("application/json",
       Obj(<<F("schema", Object(<<F("id", Integer), F("n", Integer)>>))>>)),
     F("application/xml",
       Obj(<<F("schema", Object(<<F("id", Integer),
                                   F("tag", Obj(<<Type("string")>>))>>))>>))>>))>>))

NamedParameter(name) ==
  Obj(<<F("name", Str(name)), F("in", Str("query")), F("schema", Integer)>>)

(* post /widgets: parameters with repeated names and with the names of the *)
(* local variables of the generated method, and a request body.            *)
PostWidgets ==
  Obj(<<F("operationId", Str("putWidget")),
        F("parameters", Arr(<<NamedParameter("res"), NamedParameter("payload"),
                              NamedParameter("x"), NamedParameter("x"),
                              NamedParameter("x2"), NamedParameter("payload2")>>)),
        F("requestBody", Json(Object(<<F("name", Obj(<<Type("string")>>))>>))),
        F("responses", Obj(<<Ok(SchemaRef("Widget"))>>))>>)

PathsOf(choice) ==
  CASE choice = "widget" ->
         <<F("/widgets/{id}", Obj(<<F("get", GetWidget(<<>>, <<Ok(SchemaRef("Widget"))>>))>>))>>
    [] choice = "two-apis" ->
         <<F("/widgets/{id}", Obj(<<F("get", GetWidget(Tags("widgets"), <<Ok(SchemaRef("Widget")), Missing>>))>>)),
           F("/widgets", Obj(<<F("put", PutWidgets(Tags("admin")))>>))>>
    [] choice = "same-api" ->
         <<F("/widgets/{id}", Obj(<<F("get", GetWidget(Tags("widgets"), <<Ok(SchemaRef("Pair")), Missing>>))>>)),
           F("/widgets", Obj(<<F("put", PutWidgets(Tags("widgets")))>>))>>
    [] choice = "definitions-api" ->
         <<F("/widgets/{id}", Obj(<<F("get", GetWidget(Tags("defs"), <<Ok(SchemaRef("Widget"))>>))>>))>>
    [] choice = "responses" ->
         <<F("/widgets/{id}", Obj(<<F("get", GetWidget(<<>>,
              <<Ok(SchemaRef("Pair")), Created(SchemaRef("Widget")),
                Empty(SchemaRef("Pair"))>>))>>))>>
    [] choice = "no-content" ->
         <<F("/widgets/{id}", Obj(<<F("get", GetWidget(<<>>, <<NoContent>>))>>))>>
    [] choice = "text-only" ->
         <<F("/widgets/{id}", Obj(<<F("get", GetWidget(<<>>, <<Text>>))>>))>>
    [] choice = "tag-scan" ->
         <<F("/widgets/{id}", Obj(<<F("get", GetWidget(
              TagList(<<"plain", "ghost", "admin", "widgets">>),
              <<Ok(SchemaRef("Widget"))>>))>>)),
           F("/widgets", Obj(<<F("put", PutWidgets(Tags("admin")))>>))>>
    [] choice = "unannotated" ->
         <<F("/widgets/{id}", Obj(<<F("get", GetWidget(
              TagList(<<"plain", "ghost">>), <<Ok(SchemaRef("Widget"))>>))>>)),
           F("/widgets", Obj(<<F("put", PutWidgets(<<>>))>>))>>
    [] choice = "two-params" ->
         <<F("/owners/{res}/widgets/{id}", Obj(<<F("get",
              Obj(<<F("parameters", Arr(<<IdParameter, ResParameter>>)),
                    F("responses", Obj(<<Ok(SchemaRef("Widget"))>>))>>))>>))>>
    [] choice = "undeclared" ->
         <<F("/widgets", Obj(<<F("put", PutWidgets(<<>>))>>)),
           F("/widgets/{id}", Obj(<<F("get",
              Obj(<<F("responses", Obj(<<Ok(SchemaRef("Widget"))>>))>>))>>))>>
    [] choice = "no-responses" ->
         <<F("/widgets/{id}", Obj(<<F("get",
              Obj(<<F("parameters", Arr(<<IdParameter>>))>>))>>))>>
    [] choice = "translate" ->
         <<F("/widgets/{id}", Obj(<<F("get", GetWidget(<<>>,
              <<Translated("data", Object(<<F("data", SchemaRef("Widget")),
                                            F("total", Integer)>>))>>))>>))>>
    [] choice = "translate-scalar" ->
         <<F("/widgets/{id}", Obj(<<F("get", GetWidget(<<>>,
              <<Translated("id.x", SchemaRef("Widget"))>>))>>))>>
    [] choice = "unlabelled" ->
         <<F("/widgets/{id}", Obj(<<F("get", GetWidget(<<>>,
              <<Ok(SchemaRef("Widget")), Failure("400", "code", "message"),
                Failure("500", "error", "trace")>>))>>))>>
    [] choice = "two-contents" ->
         <<F("/widgets/{id}", Obj(<<F("get", GetWidget(<<>>, <<TwoContents, Missing>>))>>))>>
    [] choice = "arguments" ->
         <<F("/widgets", Obj(<<F("post", PostWidgets)>>))>>
    [] OTHER -> <<>>

PathChoices ==
  {"none", "widget", "two-apis", "same-api", "definitions-api", "responses",
   "no-content", "text-only", "no-responses", "tag-scan", "unannotated",
   "two-params", "undeclared", "arguments", "translate", "translate-scalar",
   "unlabelled", "two-contents"}

TagDefs ==
  Arr(<<Obj(<<F("name", Str("widgets")), F("x-codegen-class", Str("WidgetApi"))>>),
        Obj(<<F("name", Str("admin")), F("x-codegen-class", Str("AdminApi"))>>),
        Obj(<<F("name", Str("defs")), F("x-codegen-class", Str("definitions"))>>),
        Obj(<<F("name", Str("plain"))>>)>>)

Document(schemas, choice) ==
  Obj(<<F("tags", TagDefs),
        F("components", Obj(<<
          F("schemas", Obj([i \in 1..Len(schemas) |-> F(schemas[i], SchemaBody(schemas[i]))])),
          F("responses", Obj(<<F("NotFound", NotFound)>>))>>))>>
      \o (IF choice = "none" THEN <<>> ELSE <<F("paths", Obj(PathsOf(choice)))>>))

(* The schemas that the operations of a choice refer to. *)
Requires(choice) ==
  CASE choice \in {"none", "no-content", "text-only", "no-responses"} -> {}
    [] choice \in {"same-api", "responses"} -> {"Widget", "Pair"}
    [] OTHER -> {"Widget"}

Listed(schemas) == { schemas[i] : i \in 1..Len(schemas) }

Documents ==
  { Document(c[1], c[2]) :
      c \in { c \in SchemaLists \X PathChoices : Requires(c[2]) \subseteq Listed(c[1]) } }

WidgetDocument == Document(<<"Widget">>, "widget")

(***************************************************************************)
(* The scope state machine: any caller of the Scope API.                   *)
(***************************************************************************)
ScopeNames == {"bar", "apis"}
DefNames == {<<"Foo">>, <<"Foo_2">>}
Sources == {<<"a", "Foo">>, <<"b", "Foo">>, <<"Foo">>}
LocalNames == {NoName, <<"Foo">>}
SymbolInfos ==
  { [public |-> TRUE, spec_path |-> NoName],
    [public |-> FALSE, spec_path |-> <<"#", "components", "schemas", "Foo">>],
    [public |-> FALSE, spec_path |-> <<"#", "components", "schemas", "Bar">>] }

NoCodegen == FileCodegen("", 0, Null)

GenIdle ==
  /\ input = Undefined
  /\ pc = "idle"
  /\ codegen = NoCodegen
  /\ byApi = <<>>
  /\ ix = 0
  /\ files = <<>>
  /\ calls = <<>>
  /\ err = "none"

(* The value of a lookup that found nothing (undefined). *)
NoEntry == [type |-> "undefined"]

NoOp == [op |-> "none", scope |-> 0, name |-> NoName, local_name |-> NoName,
         public |-> FALSE, ret |-> NoName, err |-> FALSE, before |-> <<>>,
         predicate |-> "none", found |-> FALSE, entry |-> NoEntry]

(* The predicates handed to find, each given by the entries it accepts. *)
Predicates == {"definition", "import", "public", "Foo"}

Accepted(predicate, sc) ==
  { e \in Entries(sc) :
      CASE predicate = "definition" -> e.type = "definition"
        [] predicate = "import" -> e.type = "import"
        [] predicate = "public" -> e.public
        [] OTHER -> /\ e.type = "definition"
                    /\ e.spec_path = <<"#", "components", "schemas", "Foo">> }

(* The names that getEntry and exists are asked about. *)
LookupNames == Sources \cup DefNames \cup {<<"bar", "Foo">>}

EntryOf(r) == IF r.found THEN r.entry ELSE NoEntry

Step == nops < MaxOps /\ nops' = nops + 1

Init ==
  /\ scopes = <<NewScope("root", Null, 0)>>
  /\ last = NoOp
  /\ nops = 0
  /\ GenIdle

CallScope ==
  \E s \in 1..Len(scopes), name \in ScopeNames :
    /\ Len(scopes) < MaxScopes
    /\ Step
    /\ scopes' = scope(scopes, s, name, name \o ".ts")
    /\ last' = [NoOp EXCEPT !.op = "scope", !.scope = s, !.name = <<name>>,
                            !.before = scopes]

CallDefine ==
  \E s \in 1..Len(scopes), name \in DefNames, symbol_info \in SymbolInfos :
    LET r == define(scopes, s, name, symbol_info)
    IN /\ Step
       /\ scopes' = r.sc
       /\ last' = [NoOp EXCEPT !.op = "define", !.scope = s, !.name = name,
                               !.public = symbol_info.public, !.err = r.err,
                               !.before = scopes]

CallImport ==
  \E s \in 1..Len(scopes), name \in Sources, local_name \in LocalNames :
    LET r == import(scopes, s, name, local_name)
    IN /\ Step
       /\ scopes' = r.sc
       /\ last' = [NoOp EXCEPT !.op = "import", !.scope = s, !.name = name,
                               !.local_name = local_name, !.ret = r.ret,
                               !.err = r.err, !.before = scopes]

CallFind ==
  \E s \in 1..Len(scopes), predicate \in Predicates :
    LET r == find(scopes, s, Accepted(predicate, scopes))
    IN /\ Step
       /\ scopes' = scopes
       /\ last' = [NoOp EXCEPT !.op = "find", !.scope = s,
                               !.predicate = predicate, !.found = r.found,
                               !.entry = EntryOf(r), !.before = scopes]

CallGetEntry ==
  \E s \in 1..Len(scopes), name \in LookupNames :
    LET r == getEntry(scopes, s, name)
    IN /\ Step
       /\ scopes' = scopes
       /\ last' = [NoOp EXCEPT !.op = "getEntry", !.scope = s, !.name = name,
                               !.found = r.found, !.entry = EntryOf(r),
                               !.before = scopes]

CallExists ==
  \E s \in 1..Len(scopes), name \in LookupNames :
    /\ Step
    /\ scopes' = scopes
    /\ last' = [NoOp EXCEPT !.op = "exists", !.scope = s, !.name = name,
                            !.found = exists(scopes, s, name),
                            !.before = scopes]

Next ==
  (CallScope \/ CallDefine \/ CallImport \/ CallFind \/ CallGetEntry \/ CallExists)
    /\ UNCHANGED genvars

Spec == Init /\ [][Next]_vars

(***************************************************************************)
(* The generation run: Codegen.generate, one action per step of it.        *)
(***************************************************************************)
ScopeIdle == last = NoOp /\ nops = 0

spec == createOpenApiObject(input, <<"#">>, input)

Schemas == ProxyGet(ProxyGet(spec, "components", input), "schemas", input)

State == [sc |-> scopes, typedefs |-> codegen.typedefs,
          operations |-> codegen.operations, ret |-> "", err |-> "none",
          calls |-> calls]

Context == [s |-> codegen.scope, root |-> input]

Outcome_continue(r, pcNext, ixNext) ==
  /\ scopes' = r.sc
  /\ codegen' = [codegen EXCEPT !.typedefs = r.typedefs, !.operations = r.operations]
  /\ calls' = r.calls
  /\ err' = r.err
  /\ pc' = pcNext
  /\ ix' = ixNext

(* The outcome of a FileCodegen method: the new state, or the failed run. *)
Outcome(r, pcNext, ixNext) ==
  /\ scopes' = r.sc
  /\ codegen' = [codegen EXCEPT !.typedefs = r.typedefs, !.operations = r.operations]
  /\ calls' = r.calls
  /\ err' = r.err
  /\ pc' = IF r.err = "none" THEN pcNext ELSE "failed"
  /\ ix' = ixNext

GenInit ==
  /\ input \in Documents
  /\ pc = "start"
  /\ scopes = <<>>
  /\ codegen = NoCodegen
  /\ byApi = <<>>
  /\ ix = 0
  /\ files = <<>>
  /\ calls = <<>>
  /\ err = "none"
  /\ ScopeIdle

(* generate, lines 77-89: the root, client and definitions scopes. *)
Begin ==
  /\ pc = "start"
  /\ LET root_scope == <<NewScope("root", Null, 0)>>
         client_scope == scope(root_scope, 1, "client", "client.ts")
         defined == define(client_scope, 2, <<"Client">>,
                           [public |-> TRUE, spec_path |-> NoName]).sc
     IN scopes' = scope(defined, 1, "definitions", "definitions.ts")
  /\ codegen' = FileCodegen("definitions.ts", 3, Null)
  /\ pc' = "typedefs"
  /\ ix' = 1
  /\ UNCHANGED <<input, byApi, files, calls, err, last, nops>>

(* codegen of the later revision of the entry point: deref(spec) comes    *)
(* before new Codegen; the generation that follows it is not modelled.    *)
Dereference ==
  /\ pc = "start"
  /\ LET done(r) ==
           /\ err' = r.err
           /\ pc' = IF r.err = "none" THEN "dereferenced" ELSE "failed"
           /\ input' = IF r.err = "none" THEN r.value ELSE input
     IN done(deref(input, <<"#">>, Undefined, <<>>))
  /\ UNCHANGED <<scopes, codegen, byApi, ix, files, calls, last, nops>>

(* generate, lines 91-95: one generateTypedef of the loop. *)
GenerateTypedef ==
  /\ pc = "typedefs"
  /\ ix <= Len(ProxyKeys(Schemas))
  /\ LET name == ProxyKeys(Schemas)[ix]
     IN Outcome(generateTypedef(State, Context, name, ProxyGet(Schemas, name, input), <<>>),
                "typedefs", ix + 1)
  /\ UNCHANGED <<input, byApi, files, last, nops>>

Emit_dropped(pcNext, ixNext) ==
  /\ err' = "none"
  /\ files' = files
  /\ pc' = pcNext
  /\ ix' = ixNext

Emit(pcNext, ixNext) ==
  LET emitted(r) ==
        /\ err' = r.err
        /\ files' = IF r.err = "none" THEN Append(files, r.file) ELSE files
        /\ pc' = IF r.err = "none" THEN pcNext ELSE "failed"
        /\ ix' = ixNext
  IN emitted(render(scopes, codegen))

(* generate, line 97: the definitions module is rendered and yielded. *)
EmitDefinitions ==
  /\ pc = "typedefs"
  /\ ix > Len(ProxyKeys(Schemas))
  /\ Emit("operations", 0)
  /\ UNCHANGED <<input, scopes, codegen, byApi, calls, last, nops>>

(* generate, line 99. *)
GetOperations ==
  /\ pc = "operations"
  /\ byApi' = getOperations(spec, input)
  /\ pc' = "apis"
  /\ ix' = 1
  /\ UNCHANGED <<input, scopes, codegen, files, calls, err, last, nops>>

(* generate, lines 101-107: the scope and the FileCodegen of one API. *)
OpenApi ==
  /\ pc = "apis"
  /\ ix <= Len(byApi)
  /\ LET apiName == byApi[ix].name
         path == "apis/" \o apiName \o ".ts"
         defined(s, imported) ==
           /\ scopes' = IF imported.err THEN imported.sc
                         ELSE define(imported.sc, s, <<apiName>>,
                                     [public |-> TRUE, spec_path |-> NoName]).sc
           /\ codegen' = FileCodegen(path, s, apiName)
           /\ err' = IF imported.err THEN "Error" ELSE "none"
           /\ pc' = IF imported.err THEN "failed" ELSE "api"
         opened(api_scope) ==
           defined(Len(api_scope),
                   import(api_scope, Len(api_scope), <<"client", "Client">>, <<"Client">>))
     IN opened(scope(scopes, 1, apiName, path))
  /\ UNCHANGED <<input, byApi, ix, files, calls, last, nops>>

(* The operation object of a (path, method) pair, as getOperations took it *)
(* from Object.entries.                                                   *)
OperationAt(path, method) ==
  ProxyGet(ProxyGet(ProxyGet(spec, "paths", input), path, input), method, input)

(* generate, lines 109-111: one generateOperation of the loop. *)
GenerateOperation ==
  /\ pc = "api"
  /\ Len(codegen.operations) < Len(byApi[ix].operations)
  /\ LET o == byApi[ix].operations[Len(codegen.operations) + 1]
     IN Outcome(generateOperation(State, Context, o.path, o.method,
                                  OperationAt(o.path, o.method)),
                "api", ix)
  /\ UNCHANGED <<input, byApi, files, last, nops>>

(* generate, line 113: the API module is rendered and yielded. *)
EmitApi ==
  /\ pc = "api"
  /\ Len(codegen.operations) = Len(byApi[ix].operations)
  /\ Emit("apis", ix + 1)
  /\ UNCHANGED <<input, scopes, codegen, byApi, calls, last, nops>>

(* generate, line 116: the index module. *)
GenerateIndex ==
  /\ pc = "apis"
  /\ ix > Len(byApi)
  /\ LET emitted(r) ==
           /\ err' = r.err
           /\ files' = IF r.err = "none" THEN Append(files, r.file) ELSE files
           /\ pc' = IF r.err = "none" THEN "done" ELSE "failed"
     IN emitted(generateIndex(scopes, "index.ts"))
  /\ UNCHANGED <<input, scopes, codegen, byApi, ix, calls, last, nops>>

GenNext ==
  \/ Begin
  \/ Dereference
  \/ GenerateTypedef
  \/ EmitDefinitions
  \/ GetOperations
  \/ OpenApi
  \/ GenerateOperation
  \/ EmitApi
  \/ GenerateIndex

GenSpec == GenInit /\ [][GenNext]_vars


(***************************************************************************)
(* resolve applied to the pointers of at most MaxPointer segments on       *)
(* documents with objects, arrays, scalars and null values.                *)
(***************************************************************************)
PointerSegments == {"a", "b", "n", "0", "1", "2"}

RECURSIVE PointersOf(_)
PointersOf(n) ==
  IF n = 0 THEN {<<"#">>}
  ELSE PointersOf(n - 1)
         \cup { Append(p, s) : p \in PointersOf(n - 1), s \in PointerSegments }

Pointers == PointersOf(MaxPointer)

ResolveDocuments ==
  { Obj(<<F("a", Obj(<<F("b", Arr(<<Str("x"), JsonNull, Obj(<<F("a", Str("y"))>>)>>)),
                       F("n", JsonNull)>>)),
          F("b", Str("s")),
          F("0", Arr(<<Obj(<<F("b", JsonNull), F("1", Str("z"))>>)>>))>>),
    Arr(<<Obj(<<F("a", Arr(<<Str("x"), Str("y")>>)), F("n", JsonNull)>>),
          Str("s"),
          Arr(<<JsonNull, Obj(<<F("b", Str("z"))>>)>>)>>) }

ResolveInit ==
  /\ input \in ResolveDocuments
  /\ pc = "resolve"
  /\ scopes = <<>>
  /\ codegen = NoCodegen
  /\ byApi = <<>>
  /\ ix = 0
  /\ files = <<>>
  /\ calls = <<>>
  /\ err = "none"
  /\ ScopeIdle

Resolve ==
  /\ pc = "resolve"
  /\ \E pointer \in Pointers :
       LET returned(ret) ==
             /\ last' = [op |-> "resolve", pointer |-> pointer, ret |-> ret]
             /\ err' = IF ret = Raised THEN "TypeError" ELSE "none"
       IN returned(resolve(input, pointer))
  /\ UNCHANGED <<input, pc, scopes, codegen, byApi, ix, files, calls, nops>>

ResolveNext == Resolve

ResolveSpec == ResolveInit /\ [][ResolveNext]_vars

(***************************************************************************)
(* The document as its consumers see it: wrapped in the lazy proxy and     *)
(* read property by property, or dereferenced as a whole and then read.    *)
(* last holds the node reached, the node it was read from and the          *)
(* properties read since the root.                                         *)
(***************************************************************************)
DefRef(name) == RefTo(<<"#", "defs", name>>)

PathDocuments ==
  LET W == Object(<<F("id", Integer)>>)
      P == Object(<<F("w", DefRef("W")), F("list", Arr(<<DefRef("W"), Integer>>))>>)
  IN { Obj(<<F("defs", Obj(<<F("W", W), F("P", P)>>)),
             F("use", Obj(<<F("x", DefRef("P")), F("z", DefRef("W"))>>))>>),
       Obj(<<F("defs", Obj(<<F("W", W), F("A", DefRef("W"))>>)),
             F("use", Arr(<<DefRef("W"), DefRef("A")>>))>>),
       Obj(<<F("defs", Obj(<<F("W", W), F("A", DefRef("W")), F("P", P)>>)),
             F("use", Obj(<<F("x", DefRef("P")), F("y", DefRef("A"))>>))>>) }

PathInit ==
  /\ input \in PathDocuments
  /\ pc = "document"
  /\ scopes = <<>>
  /\ codegen = NoCodegen
  /\ byApi = <<>>
  /\ ix = 0
  /\ files = <<>>
  /\ calls = <<>>
  /\ err = "none"
  /\ ScopeIdle

Visit(op, route, node, parent) ==
  [op |-> op, route |-> route, node |-> node, parent |-> parent]

(* codegen: createOpenApiObject(spec). *)
Wrap ==
  /\ pc = "document"
  /\ pc' = "proxy"
  /\ last' = Visit("proxy", <<>>, spec, Undefined)
  /\ UNCHANGED <<input, scopes, codegen, byApi, ix, files, calls, err, nops>>

(* The get trap: node[prop] for an own property of the target. *)
GetProperty ==
  /\ pc = "proxy"
  /\ \E prop \in { ProxyKeys(last.node)[i] : i \in 1..Len(ProxyKeys(last.node)) } :
       last' = Visit("proxy", Append(last.route, prop),
                     ProxyGet(last.node, prop, input), last.node)
  /\ UNCHANGED <<input, pc, scopes, codegen, byApi, ix, files, calls, err, nops>>

(* codegen of the other revision: deref(spec). *)
DerefDocument ==
  /\ pc = "document"
  /\ LET done(r) ==
           /\ err' = r.err
           /\ pc' = IF r.err = "none" THEN "deref" ELSE "failed"
           /\ last' = Visit("deref", <<>>, r.value, Undefined)
     IN done(deref(input, <<"#">>, Undefined, <<>>))
  /\ UNCHANGED <<input, scopes, codegen, byApi, ix, files, calls, nops>>

(* Object.keys and value[prop] on the dereferenced document. *)
OwnKeys(value) ==
  IF value.k = "arr"
  THEN { ToString(i - 1) : i \in 1..Len(value.e) }
         \cup (IF "path" \in DOMAIN value THEN {"$path"} ELSE {})
  ELSE { Keys(value)[i] : i \in 1..Len(Keys(value)) }

Read(value, prop) ==
  IF value.k = "arr" /\ prop = "$path" THEN Ptr(value.path)
  ELSE Walk(value, <<prop>>)

ReadProperty ==
  /\ pc = "deref"
  /\ \E prop \in OwnKeys(last.node) :
       last' = Visit("deref", Append(last.route, prop),
                     Read(last.node, prop), last.node)
  /\ UNCHANGED <<input, pc, scopes, codegen, byApi, ix, files, calls, err, nops>>

PathNext == Wrap \/ GetProperty \/ DerefDocument \/ ReadProperty

PathSpec == PathInit /\ [][PathNext]_vars

(***************************************************************************)
(* Properties of the Scope API, checked under Spec.                        *)
(***************************************************************************)
SameSymbol(e, name) ==
  \/ (e.type = "import" /\ e.source = name)
  \/ (e.type = "definition" /\ e.local_name = name)

Known(table, name) == \E i \in 1..Len(table) : SameSymbol(table[i], name)

DefinedAs(table, name) ==
  \E i \in 1..Len(table) :
    table[i].type = "definition" /\ table[i].local_name = name

(* C1: importing the same source into the same scope a second time returns *)
(* the name the first import returned and changes nothing; over the two    *)
(* calls the table gains exactly one entry for a source that was new and   *)
(* none when the scope holds a definition named like the source, whose     *)
(* name is then the result.                                                *)
C1_ImportIdempotent ==
  (last.op = "import" /\ ~last.err) =>
    LET s == last.scope
        tb == last.before[s].table
        ta == scopes[s].table
    IN /\ \A ln \in LocalNames :
            LET again == import(scopes, s, last.name, ln)
            IN ~again.err /\ again.ret = last.ret /\ again.sc = scopes
       /\ (~Known(tb, last.name) => Len(ta) = Len(tb) + 1)
       /\ (Known(tb, last.name) => ta = tb)
       /\ (DefinedAs(tb, last.name) => last.ret = last.name /\ ta = tb)

C1_Witness ==
  /\ last.op = "import" /\ ~last.err
  /\ last.ret = <<"Foo_2">>
  /\ Len(scopes[last.scope].table) = Len(last.before[last.scope].table) + 1
  /\ import(scopes, last.scope, last.name, NoName).ret = <<"Foo_2">>

ImportedAs(sc, s, name, ln) ==
  \E i \in 1..Len(sc[s].table) :
    LET e == sc[s].table[i]
    IN e.type = "import" /\ e.source = name /\ e.local_name = ln

(* C2: two sources with the same last segment get distinct local names,    *)
(* and once a source has been imported under a local name, importing it    *)
(* again after any further define or import returns that same local name.  *)
C2_UniqueLocalNaming ==
  [][\A s \in 1..Len(scopes) : \A name \in Sources : \A ln \in {<<"Foo">>, <<"Foo_2">>, <<"Foo_3">>} :
       ImportedAs(scopes, s, name, ln) =>
         /\ import(scopes', s, name, NoName).ret = ln
         /\ \A other \in Sources \ {name} : ~ImportedAs(scopes, s, other, ln)]_vars

(* The names of the scopes from the outermost non-root ancestor of s down  *)
(* to s itself.                                                            *)
ScopePath(sc, s) ==
  LET chain == Chain(sc, s)
      n == Len(chain) - 1
  IN [j \in 1..n |-> sc[chain[n + 1 - j]].name]

C4_GlobalNameInvariant ==
  \A s \in 1..Len(scopes) :
    /\ \A i \in 1..Len(scopes[s].table) :
         LET e == scopes[s].table[i]
         IN e.type = "definition" =>
              IF e.public
              THEN e.global_name = ScopePath(scopes, s) \o e.local_name
              ELSE e.global_name = NoName
    /\ \A name \in DefNames :
         /\ globalName(scopes, s, name) = ScopePath(scopes, s) \o name
         /\ (scopes[s].parent = 1 /\ scopes[s].name = "apis"
               => globalName(scopes, s, name) = <<"apis">> \o name)

C4_Witness ==
  \E s \in 1..Len(scopes) :
    /\ Len(Chain(scopes, s)) = 3
    /\ HasKey(scopes[s].table, <<"Foo">>)
    /\ TableGet(scopes[s].table, <<"Foo">>).public
    /\ TableGet(scopes[s].table, <<"Foo">>).global_name = <<"apis", "bar", "Foo">>
    /\ HasKey(scopes[1].table, <<"apis", "bar", "Foo">>)

(* C5: a define of a name that the local table already holds raises a      *)
(* naming-conflict error and leaves every table as it was.                 *)
C5_DefineFailsOnExisting ==
  (last.op = "define" /\ HasKey(last.before[last.scope].table, last.name))
    => (last.err /\ scopes = last.before)

OccupiedByOther(table, local_name, name) ==
  /\ HasKey(table, local_name)
  /\ ~SameSymbol(TableGet(table, local_name), name)

(* C6 as stated: an import with an explicit local name occupied by an      *)
(* entry for a different symbol fails and leaves the table unchanged.      *)
C6_ExplicitConflictFails ==
  (/\ last.op = "import"
   /\ last.local_name # NoName
   /\ OccupiedByOther(last.before[last.scope].table, last.local_name, last.name))
    => (last.err /\ scopes = last.before)

(* C6 amended: such an import fails, with the table unchanged, when the    *)
(* source is not yet known in the scope; when the source is already        *)
(* imported, or defined under the source name, the call returns that       *)
(* entry's local name instead, again with the table unchanged.             *)
C6_ExplicitConflict ==
  (/\ last.op = "import"
   /\ last.local_name # NoName
   /\ OccupiedByOther(last.before[last.scope].table, last.local_name, last.name))
    => /\ scopes = last.before
       /\ IF Known(last.before[last.scope].table, last.name)
          THEN /\ ~last.err
               /\ HasKey(scopes[last.scope].table, last.ret)
               /\ SameSymbol(TableGet(scopes[last.scope].table, last.ret), last.name)
          ELSE last.err

C6_Witness ==
  /\ last.op = "import"
  /\ last.err
  /\ last.local_name = <<"Foo">>
  /\ scopes = last.before
  /\ OccupiedByOther(scopes[last.scope].table, <<"Foo">>, last.name)

(***************************************************************************)
(* Properties of the generation run.                                       *)
(***************************************************************************)
(* The definitions made in the file scopes: the pairs (scope, entry). *)
Definitions ==
  { d \in (2..Len(scopes)) \X Entries(scopes) :
      /\ d[2].type = "definition"
      /\ \E i \in 1..Len(scopes[d[1]].table) : scopes[d[1]].table[i] = d[2] }

(* The typedefs of the run: those of the files emitted and those collected *)
(* for the file that is being generated.                                   *)
RECURSIVE Flatten(_)
Flatten(lists) ==
  IF lists = <<>> THEN <<>> ELSE lists[1] \o Flatten(Tail(lists))

Typedefs ==
  Flatten([i \in 1..Len(files) |-> files[i].typedefs])
    \o (IF \E i \in 1..Len(files) : files[i].path = codegen.filename
        THEN <<>> ELSE codegen.typedefs)

TypedefsOf(path) == { i \in 1..Len(Typedefs) : Typedefs[i].path = path }

(* C7: every symbol gets a globally unique qualified name: no two distinct *)
(* definitions of a generation run (different defining scope or different  *)
(* local name) have the same global name, and each definition keeps its    *)
(* own propagated entry in the root table (none replaces another).         *)
C7_GloballyUniqueNames ==
  /\ \A d1, d2 \in Definitions :
       (d1[1] # d2[1] \/ d1[2].local_name # d2[2].local_name)
         => globalName(scopes, d1[1], d1[2].local_name)
              # globalName(scopes, d2[1], d2[2].local_name)
  /\ \A d \in Definitions :
       LET key == <<scopes[d[1]].name>> \o d[2].local_name
       IN /\ HasKey(scopes[1].table, key)
          /\ TableGet(scopes[1].table, key).defined_in = scopes[d[1]].path
          /\ TableGet(scopes[1].table, key).spec_path = d[2].spec_path

(* A resolver call returned a reference to the symbol generated from path: *)
(* the name that a definition with that path, or an import of one, has in  *)
(* the scope of the call.                                                  *)
RefersTo(call, path) ==
  \E i \in 1..Len(scopes[call.scope].table) :
    LET e == scopes[call.scope].table[i]
    IN /\ NameStr(e.local_name) = call.ret
       /\ \/ e.type = "definition" /\ e.spec_path = path
          \/ /\ e.type = "import"
             /\ getEntry(scopes, call.scope, e.source).found
             /\ getEntry(scopes, call.scope, e.source).entry.spec_path = path

(* C8: schema dedup: for two resolver calls on schema nodes with the same  *)
(* canonical path, of which a typedef is generated in the run, there is    *)
(* exactly one typedef and one definition for that path, and both calls    *)
(* return a reference to that symbol.                                      *)
C8_SchemaDedup ==
  \A i, j \in 1..Len(calls) :
    (/\ i < j
     /\ calls[i].path = calls[j].path
     /\ calls[i].path # NoName
     /\ ~calls[i].err /\ ~calls[j].err
     /\ TypedefsOf(calls[i].path) # {})
    => /\ Cardinality(TypedefsOf(calls[i].path)) = 1
       /\ Cardinality({ d \in Definitions : d[2].spec_path = calls[i].path }) = 1
       /\ RefersTo(calls[i], calls[i].path)
       /\ RefersTo(calls[j], calls[i].path)

(* The references that a JSON value holds. *)
RECURSIVE Refs(_)
Refs(value) ==
  IF value.k = "obj"
  THEN (IF Get(value, "$ref").k = "ptr" THEN {Get(value, "$ref").p} ELSE {})
         \cup UNION { Refs(value.f[i].val) : i \in 1..Len(value.f) }
  ELSE IF value.k = "arr"
  THEN UNION { Refs(value.e[i]) : i \in 1..Len(value.e) }
  ELSE {}

(* The pointers reached from the value at pointer by n reference steps or  *)
(* fewer (n >= 1).                                                         *)
RECURSIVE Reach(_, _, _)
Reach(document, pointer, n) ==
  IF n <= 1 THEN Refs(resolve(document, pointer))
  ELSE LET near == Reach(document, pointer, n - 1)
       IN near \cup UNION { Refs(resolve(document, q)) : q \in near }

SchemaPointers(document) ==
  LET names == Keys(resolve(document, <<"#", "components", "schemas">>))
  IN { <<"#", "components", "schemas", names[i]>> : i \in 1..Len(names) }

ReferenceCycle(document) ==
  \E p \in SchemaPointers(document) :
    p \in Reach(document, p, Cardinality(SchemaPointers(document)))

(* C9: cycle safety: for a document whose schema graph has a reference     *)
(* cycle, neither the dereferencer nor the type resolver recurses without  *)
(* bound (no run ends in the RangeError of an exhausted stack).            *)
C9_CycleSafety ==
  (pc = "failed" /\ ReferenceCycle(input)) => err # "RangeError"

(* The run on the Widget document has finished. *)
WidgetRun == input = WidgetDocument /\ pc = "done"

WidgetPath == <<"#", "components", "schemas", "Widget">>

WidgetTypedef(file) ==
  /\ file.path = "definitions.ts"
  /\ Len(file.typedefs) = 1
  /\ file.typedefs[1].name = "Widget"
  /\ file.typedefs[1].type = "object"
  /\ file.typedefs[1].properties = <<[name |-> "id", type |-> "number"]>>

(* One API module with one operation whose path expression embeds id. *)
WidgetApi(file) ==
  /\ Len(file.apis) = 1
  /\ Len(file.apis[1].operations) = 1
  /\ file.apis[1].operations[1].method = "get"
  /\ file.apis[1].operations[1].path = "/widgets/${id}"
  /\ file.apis[1].operations[1].parameters
       = <<[argument_name |-> "id", path_name |-> "id", type |-> "number"]>>

OneWidgetDefinition ==
  /\ Cardinality(TypedefsOf(WidgetPath)) = 1
  /\ Cardinality({ d \in Definitions : d[2].spec_path = WidgetPath }) = 1
  /\ Cardinality({ d \in Definitions : d[2].local_name = <<"Widget">> }) = 1

ImportsWidget(file) ==
  \E i \in 1..Len(file.imports) :
    /\ file.imports[i].short_name = "Widget"
    /\ file.imports[i].source = "definitions.ts"

Operations ==
  Flatten([i \in 1..Len(files) |->
             Flatten([j \in 1..Len(files[i].apis) |-> files[i].apis[j].operations])])
    \o (IF \E i \in 1..Len(files) : files[i].path = codegen.filename
        THEN <<>> ELSE codegen.operations)

(* The items of array without those that occur earlier in it. *)
RECURSIVE FirstOccurrences(_, _)
FirstOccurrences(array, i) ==
  IF i > Len(array) THEN <<>>
  ELSE (IF \E j \in 1..(i - 1) : array[j] = array[i] THEN <<>> ELSE <<array[i]>>)
         \o FirstOccurrences(array, i + 1)

ResponseTypes(op) == [i \in 1..Len(op.responses) |-> op.responses[i].returnType]

(* C11: the return-type expression of every operation is the list of the   *)
(* types resolved for its responses, each kept at its first occurrence     *)
(* only, joined with ' | '; no type is listed twice.                       *)
C11_ReturnTypeUnion ==
  \A k \in 1..Len(Operations) :
    LET types == ResponseTypes(Operations[k])
        union == FirstOccurrences(types, 1)
    IN types # <<>> =>
         /\ Operations[k].returnType = Join(union, " | ")
         /\ \A i, j \in 1..Len(union) : i # j => union[i] # union[j]
         /\ \A i \in 1..Len(types) : \E j \in 1..Len(union) : union[j] = types[i]

(* An operation with two responses of the same type and another between.   *)
C11_Witness ==
  \E k \in 1..Len(Operations) :
    /\ ResponseTypes(Operations[k]) = <<"Pair", "number", "Pair">>
    /\ Operations[k].returnType = "Pair | number"

(* The operation that the next GenerateOperation step works on. *)
NextOperation ==
  LET o == byApi[ix].operations[Len(codegen.operations) + 1]
  IN OperationAt(o.path, o.method)

(* No response of the operation declares JSON content. *)
NoJsonContent(operation) ==
  \A i \in 1..Len(ResponsePairs(operation, input)) :
    ResponsePairs(operation, input)[i].contentType # "application/json"

(* C12: void default: an operation none of whose responses declares JSON   *)
(* content (no responses field, no content, or only other content types)  *)
(* is generated successfully, with the return-type expression 'void'.      *)
C12_VoidDefault ==
  [][(/\ pc = "api"
      /\ Len(codegen.operations) < Len(byApi[ix].operations)
      /\ NoJsonContent(NextOperation))
     => /\ pc' = "api"
        /\ Len(codegen'.operations) = Len(codegen.operations) + 1
        /\ codegen'.operations[Len(codegen'.operations)].returnType = "void"]_vars

(* The positions of the entries of scope s that the predicate accepts. *)
Matches(sc, s, predicate) ==
  { i \in 1..Len(sc[s].table) : sc[s].table[i] \in Accepted(predicate, sc) }

(* The scope s and its ancestors. *)
RECURSIVE SelfAndAncestors(_, _)
SelfAndAncestors(sc, s) ==
  IF s = 0 THEN {} ELSE {s} \cup SelfAndAncestors(sc, sc[s].parent)

(* C13: find is nearest-first: it returns the first matching entry of the  *)
(* scope's own table when there is one, the result of the parent's find    *)
(* only when there is none, and undefined only when no entry of the scope  *)
(* or of an ancestor matches.                                              *)
C13_FindNearestFirst ==
  last.op = "find" =>
    LET s == last.scope
        local == Matches(scopes, s, last.predicate)
        parent == scopes[s].parent
    IN /\ local # {} =>
            /\ last.found
            /\ \E i \in local : /\ last.entry = scopes[s].table[i]
                                 /\ \A j \in local : i <= j
       /\ (local = {} /\ parent # 0) =>
            /\ last.found = find(scopes, parent, Accepted(last.predicate, scopes)).found
            /\ last.entry = EntryOf(find(scopes, parent,
                                         Accepted(last.predicate, scopes)))
       /\ (local = {} /\ parent = 0) => ~last.found
       /\ ~last.found <=>
            \A a \in SelfAndAncestors(scopes, s) : Matches(scopes, a, last.predicate) = {}

(* find on a scope with two local matches and a match in an ancestor. *)
C13_Witness ==
  /\ last.op = "find"
  /\ Cardinality(Matches(scopes, last.scope, last.predicate)) >= 2
  /\ scopes[last.scope].parent # 0
  /\ Matches(scopes, scopes[last.scope].parent, last.predicate) # {}
  /\ last.entry = scopes[last.scope].table[1]

(* The scopes among s and its ancestors whose own table has the name. *)
Holders(sc, s, name) ==
  { a \in SelfAndAncestors(sc, s) : HasKey(sc[a].table, name) }

(* The holder nearest to s: every other holder is one of its ancestors. *)
Nearest(sc, s, name) ==
  CHOOSE a \in Holders(sc, s, name) :
    Holders(sc, s, name) \subseteq SelfAndAncestors(sc, a)

C14_LocalShadows ==
  /\ last.op = "getEntry"
  /\ Cardinality(Holders(scopes, last.scope, last.name)) >= 2
  /\ \E a \in Holders(scopes, last.scope, last.name) :
       TableGet(scopes[a].table, last.name) # last.entry
  /\ last.entry = TableGet(scopes[last.scope].table, last.name)

(* The generator-class annotation of the definition of a tag in the        *)
(* document's tag list, "" when the tag has no definition or no annotation. *)
Annotation(tag) ==
  LET tagDefs == Get(input, "tags")
      hits == IF tagDefs.k = "arr"
              THEN SelectSeq(tagDefs.e, LAMBDA def : StrIs(Get(def, "name"), tag))
              ELSE <<>>
  IN IF hits = <<>> THEN "" ELSE StrOr(Get(hits[1], "x-codegen-class"), "")

(* The group the operation at (path, method) belongs to: the annotation of *)
(* its first annotated tag, DefaultApi without one.                         *)
OwningApi(path, method) ==
  LET tags == Get(Get(Get(Get(input, "paths"), path), method), "tags")
      annotated == IF tags.k = "arr"
                   THEN SelectSeq(tags.e, LAMBDA tag :
                          tag.k = "str" /\ Annotation(tag.s) # "")
                   ELSE <<>>
  IN IF annotated = <<>> THEN "DefaultApi" ELSE Annotation(annotated[1].s)

(* C15: API group selection: every operation is in the group named by the  *)
(* generator-class annotation of the first of its tags whose definition    *)
(* has one, in the group DefaultApi when it has no such tag, and there is   *)
(* one group per name.                                                      *)
C15_ApiGroupSelection ==
  /\ \A i \in 1..Len(byApi) : \A j \in 1..Len(byApi[i].operations) :
       byApi[i].name = OwningApi(byApi[i].operations[j].path,
                                 byApi[i].operations[j].method)
  /\ \A i, j \in 1..Len(byApi) : i # j => byApi[i].name # byApi[j].name

(* The part of C15 about annotated tags: an operation with an annotated     *)
(* tag is in the group of the first one, and there is one group per name.   *)
C15_FirstAnnotatedTag ==
  /\ \A i \in 1..Len(byApi) : \A j \in 1..Len(byApi[i].operations) :
       LET owner == OwningApi(byApi[i].operations[j].path,
                              byApi[i].operations[j].method)
       IN IF owner = "DefaultApi" THEN byApi[i].name = "undefined"
          ELSE byApi[i].name = owner
  /\ \A i, j \in 1..Len(byApi) : i # j => byApi[i].name # byApi[j].name

(* Two operations in the one group of the tag that is their first          *)
(* annotated one, the third tag of one of them.                            *)
C15_TagScan ==
  /\ Len(byApi) = 1
  /\ byApi[1].name = "AdminApi"
  /\ Len(byApi[1].operations) = 2

(* The names of the parameters that the operation declares. *)
DeclaredNames(operation) ==
  LET parameters == ProxyGet(operation, "parameters", input)
  IN { StrOr(ProxyGet(ProxyGet(parameters, ProxyKeys(parameters)[i], input),
                      "name", input), "undefined") :
         i \in 1..Len(ProxyKeys(parameters)) }

(* The placeholders of a path template. *)
Placeholders(path) ==
  { PathPieces(path)[i].text :
      i \in { i \in 1..Len(PathPieces(path)) : PathPieces(path)[i].param } }

(* The path template with every placeholder replaced by the reference to   *)
(* the argument of the first parameter of the descriptor that has its name. *)
Substituted(path, parameters) ==
  LET pieces == PathPieces(path)
      argument(p1) ==
        parameters[CHOOSE i \in 1..Len(parameters) :
                     /\ parameters[i].path_name = p1
                     /\ \A j \in 1..(i - 1) : parameters[j].path_name # p1].argument_name
  IN Join([i \in 1..Len(pieces) |->
             IF pieces[i].param THEN "${" \o argument(pieces[i].text) \o "}"
             ELSE pieces[i].text], "")

(* C16: path expression: when every placeholder of the path template names *)
(* a declared parameter, the operation generated has the template with     *)
(* each placeholder replaced by the reference to that parameter's argument  *)
(* identifier; when a placeholder names no declared parameter, the          *)
(* generation of the operation fails and appends no descriptor.             *)
C16_PathExpression ==
  [][(/\ pc = "api"
      /\ Len(codegen.operations) < Len(byApi[ix].operations))
     => LET o == byApi[ix].operations[Len(codegen.operations) + 1]
        IN IF Placeholders(o.path) \subseteq DeclaredNames(NextOperation)
           THEN pc' = "api" =>
                  /\ Len(codegen'.operations) = Len(codegen.operations) + 1
                  /\ LET d == codegen'.operations[Len(codegen'.operations)]
                     IN d.path = Substituted(o.path, d.parameters)
           ELSE /\ pc' = "failed"
                /\ err' # "none"
                /\ codegen'.operations = codegen.operations]_vars

(* The run has failed at an operation whose path names an undeclared       *)
(* parameter, after the generation of another operation of the group.      *)
C16_Witness ==
  /\ pc = "failed"
  /\ err = "Error"
  /\ Len(codegen.operations) = 1
  /\ Len(byApi[ix].operations) = 2
  /\ ~(Placeholders(byApi[ix].operations[2].path) \subseteq DeclaredNames(NextOperation))

(* An operation whose two placeholders are replaced by the argument        *)
(* identifiers, one of which differs from the parameter's name.            *)
C16_Renamed ==
  \E k \in 1..Len(Operations) :
    Operations[k].path = "/owners/${res2}/widgets/${id}"

(* The path of the k-th artifact of a run over the groups of byApi. *)
ArtifactPath(k) ==
  IF k = 1 THEN "definitions.ts"
  ELSE IF k <= Len(byApi) + 1 THEN "apis/" \o byApi[k - 1].name \o ".ts"
  ELSE "index.ts"

(* C17: emission order: the artifacts come out as the definitions module,  *)
(* then one module per API group in the order of the groups, then the      *)
(* index: groups + 2 artifacts when the run has succeeded.  The module     *)
(* being generated is emitted before the next one is begun, and the index  *)
(* exports every public definition of every module scope.                  *)
C17_EmissionOrder ==
  /\ pc \in {"start", "typedefs", "dereferenced"} => files = <<>>
  /\ pc = "operations" => Len(files) = 1
  /\ pc = "api" => Len(files) = ix
  /\ pc = "apis" => Len(files) = ix
  /\ pc \in {"apis", "api", "done"} =>
       /\ Len(files) <= Len(byApi) + 2
       /\ \A k \in 2..Len(files) : files[k].path = ArtifactPath(k)
       /\ \A k \in 2..Len(files) : k <= Len(byApi) + 1 =>
            /\ Len(files[k].apis) = 1
            /\ files[k].apis[1].name = byApi[k - 1].name
            /\ Len(files[k].apis[1].operations) = Len(byApi[k - 1].operations)
  /\ files # <<>> => files[1].path = "definitions.ts"
  /\ pc = "done" =>
       /\ Len(files) = Len(byApi) + 2
       /\ files[Len(files)].path = "index.ts"
       /\ \A s \in 2..Len(scopes) : \A i \in 1..Len(scopes[s].table) :
            LET e == scopes[s].table[i]
            IN (e.type = "definition" /\ e.public) =>
                 \E x \in 1..Len(files[Len(files)].exports) :
                   /\ files[Len(files)].exports[x].short_name = Last(e.local_name)
                   /\ files[Len(files)].exports[x].source = e.defined_in

(* A finished run over two API groups: four artifacts. *)
C17_Witness ==
  /\ pc = "done"
  /\ Len(byApi) = 2
  /\ Len(files) = 4
  /\ files[2].path = "apis/WidgetApi.ts"
  /\ files[3].path = "apis/AdminApi.ts"

(* C18: fatal abort: the step in which a typedef or an operation raises an *)
(* error ends the run: it emits nothing, neither the module it occurred in *)
(* nor the index is among the artifacts, and no step follows it (no retry, *)
(* no next operation, no further artifact).                                *)
C18_FatalAbort ==
  [][
      /\ (pc \in {"typedefs", "api"} /\ err = "none" /\ err' # "none") =>
           /\ pc' = "failed"
           /\ files' = files
           /\ \A k \in 1..Len(files') :
                files'[k].path \notin {codegen.filename, "index.ts"}
      /\ (err # "none" \/ pc = "failed") => UNCHANGED vars
    ]_vars

(* The run has failed in an operation of an API module, after the          *)
(* definitions module was emitted and before the module of the group was. *)
C18_Witness ==
  /\ pc = "failed"
  /\ err # "none"
  /\ ix \in 1..Len(byApi)
  /\ codegen.filename = "apis/" \o byApi[ix].name \o ".ts"
  /\ Len(files) = ix
  /\ files[1].path = "definitions.ts"

(* The run has failed in a typedef: no artifact at all. *)
C18_TypedefFailure ==
  /\ pc = "failed"
  /\ codegen.filename = "definitions.ts"
  /\ ix <= Len(ProxyKeys(Schemas))
  /\ files = <<>>

(* The node that the segments lead to: an array is indexed by the number   *)
(* of the segment, an object by the segment as a field name, and anything  *)
(* else (a scalar, null, a missing value) gives not found.                 *)
RECURSIVE Lookup(_, _)
Lookup(node, parts) ==
  IF parts = <<>> THEN node
  ELSE IF node.k = "arr"
  THEN IF \E i \in 1..Len(node.e) : ToString(i - 1) = parts[1]
       THEN Lookup(node.e[CHOOSE i \in 1..Len(node.e) : ToString(i - 1) = parts[1]],
                   Tail(parts))
       ELSE Undefined
  ELSE IF node.k = "obj" THEN Lookup(Get(node, parts[1]), Tail(parts))
  ELSE Undefined

(* Some proper prefix of the pointer leads to a null value. *)
ThroughNull(document, pointer) ==
  \E n \in 1..(Len(pointer) - 1) :
    Lookup(document, SubSeq(Parts(pointer), 1, n)) = JsonNull

(* C19: pointer resolution never raises: resolve yields the node that the  *)
(* segments lead to, and not found (undefined), without an exception, when *)
(* a segment is applied to a scalar, a null value or a missing value or is *)
(* not present.                                                            *)
C19_ResolveNeverRaises ==
  (pc = "resolve" /\ last # NoOp) =>
    /\ err = "none"
    /\ last.ret = Lookup(input, Parts(last.pointer))

(* The part of C19 that holds: on a pointer that does not pass through a   *)
(* null value.                                                             *)
C19_ResolveNonNull ==
  (pc = "resolve" /\ last # NoOp /\ ~ThroughNull(input, last.pointer)) =>
    /\ err = "none"
    /\ last.ret = Lookup(input, Parts(last.pointer))

(* resolve has returned not found for a segment applied to a scalar. *)
C19_ScalarNotFound ==
  /\ pc = "resolve" /\ last # NoOp
  /\ Len(last.pointer) = 3
  /\ Lookup(input, SubSeq(last.pointer, 2, 2)).k = "str"
  /\ last.ret = Undefined
  /\ err = "none"

(* The canonical path that a composite node carries. *)
Composite(node) == node.k \in {"proxy", "obj", "arr"}

CanonicalPath(node) ==
  IF node.k = "proxy" THEN node.path
  ELSE IF node.k = "arr" THEN node.path
  ELSE Get(node, "$path").p

IsReference(value) == value.k = "obj" /\ Get(value, "$ref").k = "ptr"

(* The location of the document that a location refers to, every reference *)
(* followed, and the location that the properties read lead to.            *)
RECURSIVE Follow(_)
Follow(location) ==
  IF IsReference(resolve(input, location))
  THEN Follow(Get(resolve(input, location), "$ref").p)
  ELSE location

RECURSIVE Location(_)
Location(route) ==
  IF route = <<>> THEN <<"#">>
  ELSE Follow(Append(Location(SubSeq(route, 1, Len(route) - 1)), route[Len(route)]))

(* The value that the document has at the property read last, before any   *)
(* reference in it is followed.                                             *)
Written(route) ==
  resolve(input, Append(Location(SubSeq(route, 1, Len(route) - 1)), route[Len(route)]))

(* The node that reading the properties of route leads to. *)
RECURSIVE NodeAt(_, _)
NodeAt(op, route) ==
  IF route = <<>>
  THEN IF op = "proxy" THEN spec ELSE deref(input, <<"#">>, Undefined, <<>>).value
  ELSE LET parent == NodeAt(op, SubSeq(route, 1, Len(route) - 1))
       IN IF op = "proxy" THEN ProxyGet(parent, route[Len(route)], input)
          ELSE IF Composite(parent) THEN Walk(parent, <<route[Len(route)]>>)
          ELSE Undefined

(* The routes of at most n properties that lead to the locations of the    *)
(* document.                                                               *)
RouteKeys == {"defs", "use", "W", "P", "A", "x", "y", "z", "w", "list",
              "properties", "id", "0", "1"}

RECURSIVE RoutesOf(_, _)
RoutesOf(op, n) ==
  IF n = 0 THEN {<<>>}
  ELSE RoutesOf(op, n - 1)
         \cup UNION { { Append(r, key) :
                          key \in { key \in RouteKeys :
                                      Composite(NodeAt(op, Append(r, key))) } } :
                      r \in { r \in RoutesOf(op, n - 1) : Len(r) = n - 1 } }

(* The node reached carries the target of the reference it was reached     *)
(* through, or else the path of the node it was read from extended by the  *)
(* property.                                                               *)
PathOfNode ==
  IF IsReference(Written(last.route))
  THEN CanonicalPath(last.node) = Get(Written(last.route), "$ref").p
  ELSE CanonicalPath(last.node) =
         Append(CanonicalPath(last.parent), last.route[Len(last.route)])

(* A composite node was read, at a property of the document. *)
NodeRead ==
  /\ pc \in {"proxy", "deref"}
  /\ last.route # <<>>
  /\ Composite(last.node)
  /\ last.route[Len(last.route)] \notin {"$ref", "$path"}

(* The route passes through a reference whose target is itself a           *)
(* reference.                                                              *)
ViaAlias(route) ==
  \E n \in 1..Len(route) :
    /\ IsReference(Written(SubSeq(route, 1, n)))
    /\ IsReference(resolve(input, Get(Written(SubSeq(route, 1, n)), "$ref").p))

(* C20: canonical path follows the referenced location: a composite node   *)
(* reached through a reference carries the reference target, any other     *)
(* composite node its parent's path extended by its field name or index,   *)
(* and the same schema reached by two routes carries the same canonical    *)
(* path both times.                                                        *)
C20_CanonicalPath ==
  NodeRead =>
    /\ PathOfNode
    /\ \A r \in RoutesOf(last.op, MaxRoute) :
         Location(r) = Location(last.route) =>
           CanonicalPath(NodeAt(last.op, r)) = CanonicalPath(last.node)

(* The part of C20 that holds: on routes that pass through no reference to *)
(* a reference.                                                            *)
C20_WithoutAlias ==
  (NodeRead /\ ~ViaAlias(last.route)) =>
    /\ PathOfNode
    /\ \A r \in RoutesOf(last.op, MaxRoute) :
         (Location(r) = Location(last.route) /\ ~ViaAlias(r)) =>
           CanonicalPath(NodeAt(last.op, r)) = CanonicalPath(last.node)

(* The same schema read at its own location and through a reference to an  *)
(* alias of it: two canonical paths.                                       *)
C20_AliasPath ==
  /\ NodeRead
  /\ last.route = <<"use", "y">>
  /\ Location(last.route) = <<"#", "defs", "W">>
  /\ CanonicalPath(last.node) = <<"#", "defs", "A">>
  /\ CanonicalPath(NodeAt(last.op, <<"defs", "W">>)) = <<"#", "defs", "W">>

(* A schema reached through a reference inside a referenced schema and     *)
(* read at its own location carries the same path.                         *)
C20_TwoChains ==
  /\ pc \in {"proxy", "deref"}
  /\ last.route = <<"use", "x", "properties", "w">>
  /\ CanonicalPath(last.node) = <<"#", "defs", "W">>
  /\ CanonicalPath(NodeAt(last.op, <<"defs", "W">>)) = <<"#", "defs", "W">>
  /\ CanonicalPath(NodeAt(last.op, <<"use", "z">>)) = <<"#", "defs", "W">>

(* The field names that iterating over a node of the document yields. *)
FieldNames(node) ==
  IF node.k = "proxy"
  THEN { ProxyKeys(node)[i] : i \in 1..Len(ProxyKeys(node)) }
  ELSE OwnKeys(node)

(* C21: the canonical-path stamp is a side channel: the field names of a   *)
(* composite node of the document, wrapped or dereferenced, do not include *)
(* the stamp.                                                              *)
C21_StampIsSideChannel ==
  (pc \in {"proxy", "deref"} /\ Composite(last.node)) =>
    "$path" \notin FieldNames(last.node)

(* The part of C21 that holds: the nodes of the proxy. *)
C21_ProxyStamp ==
  (pc = "proxy" /\ Composite(last.node)) =>
    /\ "$path" \notin FieldNames(last.node)
    /\ ProxyGet(last.node, "$path", input) = Ptr(CanonicalPath(last.node))

(* A proxy node with fields and a stamp that is not one of them. *)
C21_ProxyNode ==
  /\ pc = "proxy"
  /\ last.route = <<"defs", "W">>
  /\ FieldNames(last.node) = {"type", "properties"}
  /\ ProxyGet(last.node, "$path", input) = Ptr(<<"#", "defs", "W">>)

NextSchema == ProxyGet(Schemas, ProxyKeys(Schemas)[ix], input)

(* The schema is of a kind that gets a typedef: an object, an array, a      *)
(* string with an enumeration or a merge of schemas.                       *)
TypedefKind(schema) ==
  \/ StrIs(ProxyGet(schema, "type", input), "object")
  \/ StrIs(ProxyGet(schema, "type", input), "array")
  \/ /\ StrIs(ProxyGet(schema, "type", input), "string")
     /\ IsDefined(ProxyGet(schema, "enum", input))
  \/ IsDefined(ProxyGet(schema, "allOf", input))

Registered(sc, s, name, path) ==
  /\ HasKey(sc[s].table, <<name>>)
  /\ TableGet(sc[s].table, <<name>>).type = "definition"
  /\ TableGet(sc[s].table, <<name>>).spec_path = path

(* C23: generateTypedef(name, schema) registers name as a definition with  *)
(* the schema's canonical path whatever the kind of the schema, so that a  *)
(* lookup by that path finds a definition; it appends a typedef of that    *)
(* name for an object, array, string-enumeration or merge schema and       *)
(* leaves the list of typedefs unchanged for any other kind.               *)
C23_TypedefKinds ==
  [][(/\ pc = "typedefs" /\ pc' = "typedefs"
      /\ ix <= Len(ProxyKeys(Schemas)))
     => LET name == ProxyKeys(Schemas)[ix]
            path == PathOf(NextSchema)
        IN /\ Registered(scopes', codegen.scope, name, path)
           /\ find(scopes', codegen.scope,
                   { e \in Entries(scopes') :
                       e.type = "definition" /\ e.spec_path = path }).found
           /\ IF TypedefKind(NextSchema)
              THEN /\ Len(codegen'.typedefs) > Len(codegen.typedefs)
                   /\ codegen'.typedefs[Len(codegen'.typedefs)].name = name
                   /\ SubSeq(codegen'.typedefs, 1, Len(codegen.typedefs))
                        = codegen.typedefs
              ELSE codegen'.typedefs = codegen.typedefs]_vars

(* Name (a plain string) and Level (an integer enumeration) are defined    *)
(* without a typedef, the typedef of Labelled refers to both by name, and  *)
(* the other kinds have their typedefs.                                    *)
C23_Witness ==
  /\ pc = "typedefs"
  /\ ix > Len(ProxyKeys(Schemas))
  /\ Registered(scopes, codegen.scope, "Name", <<"#", "components", "schemas", "Name">>)
  /\ Registered(scopes, codegen.scope, "Level", <<"#", "components", "schemas", "Level">>)
  /\ \A i \in 1..Len(codegen.typedefs) : codegen.typedefs[i].name \notin {"Name", "Level"}
  /\ \E i \in 1..Len(codegen.typedefs) :
       /\ codegen.typedefs[i].name = "Labelled"
       /\ codegen.typedefs[i].properties[1] = [name |-> "name", type |-> "Name"]
       /\ codegen.typedefs[i].properties[3] = [name |-> "level", type |-> "Level"]
  /\ { codegen.typedefs[i].type : i \in 1..Len(codegen.typedefs) }
       = {"object", "array", "enum", "union"}

(* The union of literals of an enumeration: string values escaped and in   *)
(* double quotes, values of an integer or number enumeration as they are.  *)
Literals(schema) ==
  LET enum == ProxyGet(schema, "enum", input)
  IN Join([i \in 1..Len(enum.target.e) |->
             IF StrIs(ProxyGet(schema, "type", input), "string")
             THEN "\"" \o escape(enum.target.e[i].s, "\"") \o "\""
             ELSE enum.target.e[i].s], " | ")

(* The properties of an object schema that declare an enumeration in place *)
(* (the property is not a reference to a schema of the document).          *)
InlineEnums(schema) ==
  LET properties == ProxyGet(schema, "properties", input)
  IN { i \in 1..Len(ProxyKeys(properties)) :
         LET prop == ProxyGet(properties, ProxyKeys(properties)[i], input)
         IN /\ IsDefined(ProxyGet(prop, "enum", input))
            /\ Len(PathOf(prop)) > 4
            /\ ProxyGet(prop, "type", input).k = "str"
            /\ ProxyGet(prop, "type", input).s \in {"string", "integer", "number"} }

(* C24: inline enumerations resolve to a union of literals: the typedef of *)
(* an object schema gives every property that declares an enumeration in   *)
(* place the union of its literals as type, strings quoted and escaped,    *)
(* numbers as they are; the resolution completes without error and         *)
(* registers nothing but the definition and the typedef of the object.     *)
C24_InlineEnumeration ==
  [][(/\ pc = "typedefs"
      /\ ix <= Len(ProxyKeys(Schemas))
      /\ StrIs(ProxyGet(NextSchema, "type", input), "object")
      /\ InlineEnums(NextSchema) # {})
     => /\ pc' = "typedefs"
        /\ Len(codegen'.typedefs) = Len(codegen.typedefs) + 1
        /\ Len(scopes'[codegen.scope].table) = Len(scopes[codegen.scope].table) + 1
        /\ \A i \in InlineEnums(NextSchema) :
             codegen'.typedefs[Len(codegen'.typedefs)].properties[i].type =
               Literals(ProxyGet(ProxyGet(NextSchema, "properties", input),
                                 ProxyKeys(ProxyGet(NextSchema, "properties", input))[i],
                                 input))]_vars

(* The part of C24 that holds: enumerations of strings. *)
C24_StringEnumeration ==
  [][(/\ pc = "typedefs"
      /\ ix <= Len(ProxyKeys(Schemas))
      /\ StrIs(ProxyGet(NextSchema, "type", input), "object")
      /\ InlineEnums(NextSchema) # {}
      /\ \A i \in InlineEnums(NextSchema) :
           StrIs(ProxyGet(ProxyGet(ProxyGet(NextSchema, "properties", input),
                   ProxyKeys(ProxyGet(NextSchema, "properties", input))[i], input),
                   "type", input), "string"))
     => /\ pc' = "typedefs"
        /\ Len(codegen'.typedefs) = Len(codegen.typedefs) + 1
        /\ Len(scopes'[codegen.scope].table) = Len(scopes[codegen.scope].table) + 1
        /\ \A i \in InlineEnums(NextSchema) :
             codegen'.typedefs[Len(codegen'.typedefs)].properties[i].type =
               Literals(ProxyGet(ProxyGet(NextSchema, "properties", input),
                                 ProxyKeys(ProxyGet(NextSchema, "properties", input))[i],
                                 input))]_vars

(* The typedef of Labelled with the union of the escaped string literals. *)
C24_StringLiterals ==
  \E i \in 1..Len(codegen.typedefs) :
    /\ codegen.typedefs[i].name = "Labelled"
    /\ codegen.typedefs[i].properties[2] =
         [name |-> "color", type |-> "\"red\" | \"a\\\"b\""]

(* The run has failed with a ReferenceError in the typedef of Graded. *)
C24_NumericFails ==
  /\ pc = "failed"
  /\ err = "ReferenceError"
  /\ \E i \in 1..Len(calls) :
       /\ calls[i].err
       /\ calls[i].path = <<"#", "components", "schemas", "Graded", "properties", "level">>

(* C25: argument identifiers are locally unique: in every operation       *)
(* descriptor the argument identifiers of the declared parameters and of   *)
(* the body parameter are pairwise distinct, none of them is the name res  *)
(* of the variable that holds the response, and the body parameter is the  *)
(* identifier of the last argument.                                        *)
C25_UniqueArguments ==
  \A i \in 1..Len(codegen.operations) :
    LET parameters == codegen.operations[i].parameters
        bodyParameter == codegen.operations[i].bodyParameter
    IN /\ \A a \in 1..Len(parameters) :
            /\ parameters[a].argument_name # "res"
            /\ \A b \in 1..Len(parameters) :
                 a # b => parameters[a].argument_name # parameters[b].argument_name
       /\ bodyParameter # "" =>
            /\ parameters # <<>>
            /\ parameters[Len(parameters)].argument_name = bodyParameter
            /\ parameters[Len(parameters)].path_name = ""

(* The descriptor of the operation with the parameters res, payload, x, x, *)
(* x2, payload2 and a request body.                                        *)
C25_Witness ==
  \E i \in 1..Len(codegen.operations) :
    /\ [a \in 1..Len(codegen.operations[i].parameters) |->
          codegen.operations[i].parameters[a].argument_name]
         = <<"res2", "payload", "x", "x2", "x22", "payload2", "payload3">>
    /\ [a \in 1..Len(codegen.operations[i].parameters) |->
          codegen.operations[i].parameters[a].path_name]
         = <<"res", "payload", "x", "x", "x2", "payload2", "">>
    /\ codegen.operations[i].bodyParameter = "payload3"

(* The JSON content entry of the response 200 of an operation, and its     *)
(* translation directive ("" when it has none).                            *)
ResponseDef(operation) ==
  ProxyGet(ProxyGet(ProxyGet(ProxyGet(operation, "responses", input),
    "200", input), "content", input), "application/json", input)

Directive(operation) ==
  StrOr(ProxyGet(ResponseDef(operation), "x-codegen-translate-response", input), "")

(* The next operation of the loop has a response with a directive. *)
DirectiveNext ==
  /\ pc = "api"
  /\ Len(codegen.operations) < Len(byApi[ix].operations)
  /\ Directive(NextOperation) # ""

(* C26: response translation by explicit directive: when the sub-path of   *)
(* the directive can be followed from the response schema (properties of   *)
(* an object schema, items of an array schema), the operation is generated *)
(* with one translation entry (status code, content type, sub-path) and a  *)
(* return type resolved from the schema reached; when an intermediate      *)
(* schema is neither an object nor an array schema, the generation fails   *)
(* with the schema-path error.                                             *)
C26_ExplicitTranslation ==
  [][DirectiveNext
     => LET reached == resolveSchemaPath(input,
                         Get(ResponseDef(NextOperation).target, "schema"),
                         DotParts(Directive(NextOperation)))
        IN IF reached.err = "none"
           THEN /\ pc' = "api"
                /\ Len(codegen'.operations) = Len(codegen.operations) + 1
                /\ LET d == codegen'.operations[Len(codegen'.operations)]
                   IN /\ Len(d.responseTranslations) = 1
                      /\ d.responseTranslations[1].statusCode = "200"
                      /\ d.responseTranslations[1].contentType = "application/json"
                      /\ d.responseTranslations[1].translation = Directive(NextOperation)
                      /\ d.returnType \notin {"", "void", "undefined"}
           ELSE /\ pc' = "failed"
                /\ err' = "Error"]_vars

(* What the generator does with a directive: the call of resolveSchemaPath *)
(* on the proxied document raises a TypeError and nothing is appended.     *)
C26_DirectiveRaises ==
  [][DirectiveNext
     => /\ pc' = "failed"
        /\ err' = "TypeError"
        /\ codegen'.operations = codegen.operations]_vars

(* The run has failed with a TypeError at the operation whose directive    *)
(* data names a property of the response schema.                           *)
C26_ValidDirectiveFails ==
  /\ pc = "failed"
  /\ err = "TypeError"
  /\ byApi # <<>>
  /\ Len(codegen.operations) < Len(byApi[ix].operations)
  /\ Directive(NextOperation) = "data"
  /\ resolveSchemaPath(input, Get(ResponseDef(NextOperation).target, "schema"),
                       <<"data">>)
       = [err |-> "none", schema |-> SchemaRef("Widget")]

(* The run has failed with a TypeError, not with the schema-path error, at *)
(* the operation whose directive id.x passes through an integer schema.    *)
C26_ScalarDirectiveFails ==
  /\ pc = "failed"
  /\ err = "TypeError"
  /\ byApi # <<>>
  /\ Len(codegen.operations) < Len(byApi[ix].operations)
  /\ Directive(NextOperation) = "id.x"
  /\ resolveSchemaPath(input, Get(ResponseDef(NextOperation).target, "schema"),
                       <<"id", "x">>).err = "Error"

(* The typedef loop of the definitions module has ended without error. *)
TypedefsDone == pc = "typedefs" /\ ix > Len(ProxyKeys(Schemas))

(* The position of a schema in components.schemas (0: not listed). *)
ListedAt(name) ==
  IF \E n \in 1..Len(ProxyKeys(Schemas)) : ProxyKeys(Schemas)[n] = name
  THEN CHOOSE n \in 1..Len(ProxyKeys(Schemas)) : ProxyKeys(Schemas)[n] = name
  ELSE 0

(* The schema that property j of the typedef refers to, as written in the  *)
(* document: its name when the property is a reference to a schema of      *)
(* components.schemas, "" otherwise.                                       *)
ReferencedSchema(typedef, j) ==
  LET ref == Get(resolve(input, <<"#", "components", "schemas", typedef.name,
                                 "properties", typedef.properties[j].name>>), "$ref")
  IN IF ref.k = "ptr" /\ Len(ref.p) = 4 /\ SubSeq(ref.p, 1, 3) = <<"#", "components", "schemas">>
     THEN ref.p[4] ELSE ""

(* The pairs <<A, B>> of a typedef A with a property that refers to the     *)
(* schema B and has another type than the name B.                          *)
Misnamed ==
  UNION { { <<codegen.typedefs[i].name, ReferencedSchema(codegen.typedefs[i], j)>> :
              j \in { j \in 1..Len(codegen.typedefs[i].properties) :
                        /\ ReferencedSchema(codegen.typedefs[i], j) # ""
                        /\ codegen.typedefs[i].properties[j].type
                             # ReferencedSchema(codegen.typedefs[i], j) } } :
          i \in { i \in 1..Len(codegen.typedefs) : codegen.typedefs[i].type = "object" } }

(* Every listed schema of a kind that gets a typedef has exactly one. *)
OneTypedefPerSchema ==
  \A n \in 1..Len(ProxyKeys(Schemas)) :
    TypedefKind(ProxyGet(Schemas, ProxyKeys(Schemas)[n], input)) =>
      Cardinality({ i \in 1..Len(codegen.typedefs) :
                     codegen.typedefs[i].name = ProxyKeys(Schemas)[n] }) = 1

(* C27: type resolution does not depend on the order of the schemas: when  *)
(* the typedefs of all schemas of components.schemas have been generated,  *)
(* a property of schema A that references schema B has the named type B    *)
(* whether B is listed before or after A, and the definitions module has   *)
(* exactly one typedef per schema of a kind that gets one.                 *)
C27_OrderIndependent ==
  TypedefsDone => (Misnamed = {} /\ OneTypedefPerSchema)

(* The part of C27 that holds: a reference is misnamed only when the       *)
(* schema referred to is listed after the referring one, and there is one  *)
(* typedef per schema in every order.                                      *)
C27_ListedBefore ==
  TypedefsDone =>
    /\ \A m \in Misnamed : ListedAt(m[2]) > ListedAt(m[1])
    /\ OneTypedefPerSchema

(* Pair listed before Widget: the property w of Pair has the type object,  *)
(* the property w of Both, listed after Widget, the type Widget.           *)
C27_ForwardReference ==
  /\ TypedefsDone
  /\ ProxyKeys(Schemas) = <<"Pair", "Widget", "Both">>
  /\ codegen.typedefs[1].name = "Pair"
  /\ codegen.typedefs[1].properties[1] = [name |-> "w", type |-> "object"]
  /\ codegen.typedefs[3].name = "Both"
  /\ codegen.typedefs[3].properties[1] = [name |-> "w", type |-> "Widget"]

(* Widget listed before Pair: the property w of Pair has the type Widget. *)
C27_BackwardReference ==
  /\ TypedefsDone
  /\ ProxyKeys(Schemas) = <<"Widget", "Pair">>
  /\ codegen.typedefs[2].name = "Pair"
  /\ codegen.typedefs[2].properties[1] = [name |-> "w", type |-> "Widget"]

(* The scopes that existed before the last call and are neither its scope  *)
(* nor an ancestor of it.                                                  *)
Outsiders ==
  { t \in 1..Len(last.before) :
      \A j \in 1..Len(Chain(scopes, last.scope)) : Chain(scopes, last.scope)[j] # t }

(* C28: scope mutations are confined to the scope and its ancestors: a     *)
(* define on S leaves the table of every scope that is neither S nor an    *)
(* ancestor of S as it was; an import on S leaves every table but the one   *)
(* of S as it was and keeps every entry of S's table in its place,         *)
(* unchanged; the creation of a child scope changes no table.              *)
C28_MutationsConfined ==
  /\ last.op = "define" =>
       /\ Len(scopes) = Len(last.before)
       /\ \A t \in Outsiders : scopes[t].table = last.before[t].table
  /\ last.op = "import" =>
       /\ Len(scopes) = Len(last.before)
       /\ \A t \in 1..Len(last.before) :
            t # last.scope => scopes[t].table = last.before[t].table
       /\ Len(scopes[last.scope].table) >= Len(last.before[last.scope].table)
       /\ SubSeq(scopes[last.scope].table, 1, Len(last.before[last.scope].table))
            = last.before[last.scope].table
  /\ last.op = "scope" =>
       /\ Len(scopes) = Len(last.before) + 1
       /\ scopes[Len(scopes)].table = <<>>
       /\ \A t \in 1..Len(last.before) : scopes[t].table = last.before[t].table

(* A define in a module scope, beside a sibling module whose table has an  *)
(* entry of the same name: the sibling's table is as it was, the tables of *)
(* the scope and of the root have changed.                                 *)
C28_Witness ==
  /\ last.op = "define"
  /\ last.scope # 1
  /\ scopes[last.scope].table # last.before[last.scope].table
  /\ scopes[1].table # last.before[1].table
  /\ \E t \in Outsiders :
       /\ scopes[t].parent = scopes[last.scope].parent
       /\ HasKey(scopes[t].table, last.name)
       /\ scopes[t].table = last.before[t].table

(* An import that added an entry to a table that had entries, none of      *)
(* which changed.                                                          *)
C28_ImportAppends ==
  /\ last.op = "import"
  /\ ~last.err
  /\ last.before[last.scope].table # <<>>
  /\ Len(scopes[last.scope].table) = Len(last.before[last.scope].table) + 1

(* The module of codegen is about to be rendered: its typedef loop or its  *)
(* operation loop has ended.                                               *)
RenderNext ==
  \/ TypedefsDone
  \/ pc = "api" /\ Len(codegen.operations) = Len(byApi[ix].operations)

(* The import entries of the table of the module scope. *)
ImportEntries == SelectSeq(scopes[codegen.scope].table, LAMBDA e : e.type = "import")

(* C29: no dangling imports: when a module is rendered, getEntry on the    *)
(* module scope finds, for the source of every import entry of the scope's *)
(* table, a definition entry whose defining file is not null and is not    *)
(* the module's own file.                                                  *)
C29_NoDanglingImports ==
  RenderNext =>
    \A i \in 1..Len(ImportEntries) :
      LET source_symbol == getEntry(scopes, codegen.scope, ImportEntries[i].source)
      IN /\ source_symbol.found
         /\ source_symbol.entry.type = "definition"
         /\ source_symbol.entry.defined_in # Null
         /\ source_symbol.entry.defined_in # codegen.filename

(* An API module about to be rendered with the imports of the client and   *)
(* of a schema of the definitions module.                                  *)
C29_Witness ==
  /\ RenderNext
  /\ pc = "api"
  /\ Len(ImportEntries) = 2
  /\ ImportEntries[1].source = <<"client", "Client">>
  /\ ImportEntries[2].source = <<"definitions", "Widget">>
  /\ getEntry(scopes, codegen.scope, ImportEntries[2].source).entry.defined_in
       = "definitions.ts"
  /\ codegen.filename # "definitions.ts"

(* The operations of the API group of codegen have all been generated. *)
OperationsDone ==
  pc = "api" /\ Len(codegen.operations) = Len(byApi[ix].operations)

(* No two typedefs of the module have the same name, and every typedef's   *)
(* name denotes, in the table of the module scope, the definition with the *)
(* canonical path of that typedef.                                         *)
TypedefNamesUnique ==
  /\ \A i, j \in 1..Len(codegen.typedefs) :
       i # j => codegen.typedefs[i].name # codegen.typedefs[j].name
  /\ \A i \in 1..Len(codegen.typedefs) :
       Registered(scopes, codegen.scope, codegen.typedefs[i].name,
                  codegen.typedefs[i].path)

(* C30: typedef names are unique per module: after all operations of an    *)
(* API group have been generated, no two typedefs of the module have the   *)
(* same name and every typedef's name denotes the definition with that     *)
(* typedef's canonical path, also for operations with several status       *)
(* codes, status codes without a label and several content types under one *)
(* status code.                                                            *)
C30_TypedefNamesUnique == OperationsDone => TypedefNamesUnique

(* The response pairs of the operation have pairwise different status      *)
(* codes, each with a label.                                               *)
LabelledOnce(operation) ==
  LET pairs == ResponsePairs(operation, input)
  IN \A a \in 1..Len(pairs) :
       /\ statusCodeNames(pairs[a].statusCode) # "undefined"
       /\ \A b \in 1..Len(pairs) :
            a # b => pairs[a].statusCode # pairs[b].statusCode

(* The part of C30 that holds: groups whose operations have one content    *)
(* type per status code and a label for every status code.                 *)
C30_LabelledCodes ==
  (/\ OperationsDone
   /\ \A k \in 1..Len(byApi[ix].operations) :
        LabelledOnce(OperationAt(byApi[ix].operations[k].path,
                                 byApi[ix].operations[k].method)))
  => TypedefNamesUnique

(* Two typedefs of one name, of the responses 400 and 500 of an operation. *)
C30_UnlabelledCollide ==
  /\ OperationsDone
  /\ \E i, j \in 1..Len(codegen.typedefs) :
       /\ i < j
       /\ codegen.typedefs[i].name = codegen.typedefs[j].name
       /\ codegen.typedefs[i].path[8] = "400"
       /\ codegen.typedefs[j].path[8] = "500"
       /\ ~Registered(scopes, codegen.scope, codegen.typedefs[i].name,
                      codegen.typedefs[i].path)

(* Two typedefs of one name, of the two content types of a response 200. *)
C30_ContentTypesCollide ==
  /\ OperationsDone
  /\ \E i, j \in 1..Len(codegen.typedefs) :
       /\ i < j
       /\ codegen.typedefs[i].name = codegen.typedefs[j].name
       /\ codegen.typedefs[i].path[8] = "200"
       /\ codegen.typedefs[j].path[8] = "200"
       /\ codegen.typedefs[i].path # codegen.typedefs[j].path

====
